---- MODULE Spec2Model ----
(***************************************************************************)
(* Contact management: the per-user contact store (SupabaseManager and     *)
(* SupabaseVectorStore, development mode and Supabase mode) and the legacy *)
(* ChromaDB search (VectorDBManager) with its relevance ranking; further   *)
(* down the text builders of GPTVisionExtractor, the authentication gate   *)
(* (AuthManager), the token budget of VisitingCardProcessor, and the       *)
(* concurrent delete and upload requests of the Flask application.         *)
(*                                                                         *)
(* Python strings are sequences of one-character strings, so that `in`,    *)
(* lower(), split() and join() are computed and not assumed.  Python       *)
(* floats are exact rationals [n, d] in lowest terms.                      *)
(***************************************************************************)
EXTENDS Integers, Sequences, FiniteSets, TLC

VARIABLES
    mode,          \* "dev" | "supabase" : SupabaseManager.development_mode; "chroma" : VectorDBManager
    dev_contacts,  \* SupabaseManager._dev_contacts : user_id -> list of contact records
    table,         \* the Supabase table 'contacts', in insertion order
    collection,    \* VectorDBManager.collection : ChromaDB entries, in insertion order
    next_id,       \* the number of ids uuid4() has handed out
    ret,           \* what the last call did: its arguments, its backend calls, its outcome
    inp,           \* the arguments of the scoring functions (SpecScore)
    auth_users,    \* the accounts: SupabaseManager._dev_users, or Supabase's auth users
    issued,        \* the sessions sign-up and sign-in have handed out: [token, user_id]
    threads,       \* the requests being served, one thread each (SpecDelete, SpecUpload)
    files          \* UPLOAD_FOLDER : path -> content (SpecUpload)

vars == <<mode, dev_contacts, table, collection, next_id, ret, inp,
          auth_users, issued, threads, files>>

-----------------------------------------------------------------------------
(* Strings *)

UpperAlpha == <<"A","B","C","D","E","F","G","H","I","J","K","L","M","N","O","P","Q","R","S","T","U","V","W","X","Y","Z">>
LowerAlpha == <<"a","b","c","d","e","f","g","h","i","j","k","l","m","n","o","p","q","r","s","t","u","v","w","x","y","z">>

LowerOf == [c \in {UpperAlpha[i] : i \in 1..Len(UpperAlpha)} |->
               LowerAlpha[CHOOSE i \in 1..Len(UpperAlpha) : UpperAlpha[i] = c]]

\* str.lower() on one character
LowerChar(c) == IF c \in DOMAIN LowerOf THEN LowerOf[c] ELSE c

\* str.lower()
Lower(s) == [i \in 1..Len(s) |-> LowerChar(s[i])]

\* a in b  (substring test)
IsSubstr(a, b) ==
    \E i \in 0..(Len(b) - Len(a)) : SubSeq(b, i + 1, i + Len(a)) = a

\* str.split() : the maximal runs of non-blank characters
RECURSIVE SplitFrom(_, _, _)
SplitFrom(s, i, word) ==
    IF i > Len(s)
    THEN IF word = <<>> THEN <<>> ELSE <<word>>
    ELSE IF s[i] = " "
         THEN IF word = <<>>
              THEN SplitFrom(s, i + 1, <<>>)
              ELSE <<word>> \o SplitFrom(s, i + 1, <<>>)
         ELSE SplitFrom(s, i + 1, Append(word, s[i]))

Split(s) == SplitFrom(s, 1, <<>>)

\* sep.join(parts)
RECURSIVE Join(_, _)
Join(sep, parts) ==
    IF parts = <<>> THEN <<>>
    ELSE IF Len(parts) = 1 THEN parts[1]
    ELSE parts[1] \o sep \o Join(sep, Tail(parts))

\* str.strip() is non-empty: the string holds a non-blank character
StripNonEmpty(s) == \E i \in 1..Len(s) : s[i] # " "

-----------------------------------------------------------------------------
(* Numbers: a float is the rational n/d, d > 0, in lowest terms *)

RECURSIVE Gcd(_, _)
Gcd(a, b) == IF b = 0 THEN a ELSE Gcd(b, a % b)

Abs(x) == IF x < 0 THEN -x ELSE x

Rat(n, d) ==
    LET g == Gcd(Abs(n), Abs(d))
        s == IF d < 0 THEN -1 ELSE 1
    IN  [n |-> (s * n) \div g, d |-> (s * d) \div g]

RAdd(a, b) == Rat(a.n * b.d + b.n * a.d, a.d * b.d)
RSub(a, b) == Rat(a.n * b.d - b.n * a.d, a.d * b.d)
RMul(a, b) == Rat(a.n * b.n, a.d * b.d)
RLe(a, b)  == a.n * b.d <= b.n * a.d
RLt(a, b)  == a.n * b.d < b.n * a.d
RMax(a, b) == IF RLe(a, b) THEN b ELSE a
RMin(a, b) == IF RLe(a, b) THEN a ELSE b
RZero == Rat(0, 1)
ROne  == Rat(1, 1)

-----------------------------------------------------------------------------
(* Python values: a str, None, or a list of str; a dict is the sequence of *)
(* its (key, value) pairs in insertion order                               *)

None == [t |-> "none"]
Str(s) == [t |-> "str", v |-> s]
List(l) == [t |-> "list", v |-> l]

\* repr() of a str without quotes or backslashes inside
Repr(s) == <<"'">> \o s \o <<"'">>

\* str(value)
PyStr(x) ==
    CASE x.t = "str"  -> x.v
      [] x.t = "none" -> <<"N","o","n","e">>
      [] x.t = "list" -> <<"[">> \o Join(<<","," ">>, [i \in 1..Len(x.v) |-> Repr(x.v[i])]) \o <<"]">>

\* bool(value)
Truthy(x) ==
    CASE x.t = "str"  -> x.v # <<>>
      [] x.t = "none" -> FALSE
      [] x.t = "list" -> x.v # <<>>

HasKey(d, k) == \E i \in 1..Len(d) : d[i].k = k

\* d.get(k, default)
Get(d, k, default) ==
    IF HasKey(d, k) THEN d[CHOOSE i \in 1..Len(d) : d[i].k = k].v ELSE default

\* str.strip()
RECURSIVE LStrip(_)
LStrip(s) == IF s # <<>> /\ Head(s) = " " THEN LStrip(Tail(s)) ELSE s

RECURSIVE RStrip(_)
RStrip(s) == IF s # <<>> /\ s[Len(s)] = " " THEN RStrip(SubSeq(s, 1, Len(s) - 1)) ELSE s

Strip(s) == RStrip(LStrip(s))

-----------------------------------------------------------------------------
(* VectorDBManager: query enhancement and relevance scoring *)

domain_mappings == <<
    [key |-> <<"r","e","a","l"," ","e","s","t","a","t","e">>, terms |-> <<"r","e","a","l"," ","e","s","t","a","t","e"," ","p","r","o","p","e","r","t","y"," ","r","e","a","l","t","y"," ","h","o","u","s","i","n","g"," ","h","o","m","e","s"," ","c","o","m","m","e","r","c","i","a","l"," ","r","e","s","i","d","e","n","t","i","a","l"," ","i","n","v","e","s","t","m","e","n","t"," ","b","r","o","k","e","r"," ","a","g","e","n","t"," ","d","e","v","e","l","o","p","e","r"," ","l","a","n","d","l","o","r","d"," ","t","e","n","a","n","t"," ","m","o","r","t","g","a","g","e">>],
    [key |-> <<"r","e","a","l","e","s","t","a","t","e">>, terms |-> <<"r","e","a","l"," ","e","s","t","a","t","e"," ","p","r","o","p","e","r","t","y"," ","r","e","a","l","t","y"," ","h","o","u","s","i","n","g"," ","h","o","m","e","s"," ","c","o","m","m","e","r","c","i","a","l"," ","r","e","s","i","d","e","n","t","i","a","l"," ","i","n","v","e","s","t","m","e","n","t"," ","b","r","o","k","e","r"," ","a","g","e","n","t"," ","d","e","v","e","l","o","p","e","r"," ","l","a","n","d","l","o","r","d"," ","t","e","n","a","n","t"," ","m","o","r","t","g","a","g","e">>],
    [key |-> <<"p","r","o","p","e","r","t","y">>, terms |-> <<"r","e","a","l"," ","e","s","t","a","t","e"," ","p","r","o","p","e","r","t","y"," ","r","e","a","l","t","y"," ","h","o","u","s","i","n","g"," ","h","o","m","e","s"," ","c","o","m","m","e","r","c","i","a","l"," ","r","e","s","i","d","e","n","t","i","a","l"," ","i","n","v","e","s","t","m","e","n","t"," ","b","r","o","k","e","r"," ","a","g","e","n","t"," ","d","e","v","e","l","o","p","e","r">>],
    [key |-> <<"h","o","s","p","i","t","a","l">>, terms |-> <<"h","o","s","p","i","t","a","l"," ","m","e","d","i","c","a","l"," ","h","e","a","l","t","h","c","a","r","e"," ","c","l","i","n","i","c"," ","d","o","c","t","o","r"," ","p","h","y","s","i","c","i","a","n"," ","n","u","r","s","e"," ","s","p","e","c","i","a","l","i","s","t"," ","p","e","d","i","a","t","r","i","c"," ","c","h","i","l","d","r","e","n"," ","s","u","r","g","e","r","y"," ","e","m","e","r","g","e","n","c","y"," ","c","a","r","e"," ","t","r","e","a","t","m","e","n","t">>],
    [key |-> <<"m","e","d","i","c","a","l">>, terms |-> <<"m","e","d","i","c","a","l"," ","h","e","a","l","t","h","c","a","r","e"," ","h","o","s","p","i","t","a","l"," ","c","l","i","n","i","c"," ","d","o","c","t","o","r"," ","p","h","y","s","i","c","i","a","n"," ","n","u","r","s","e"," ","s","p","e","c","i","a","l","i","s","t"," ","t","r","e","a","t","m","e","n","t"," ","p","a","t","i","e","n","t"," ","c","a","r","e"," ","h","e","a","l","t","h">>],
    [key |-> <<"h","e","a","l","t","h","c","a","r","e">>, terms |-> <<"h","e","a","l","t","h","c","a","r","e"," ","m","e","d","i","c","a","l"," ","h","o","s","p","i","t","a","l"," ","c","l","i","n","i","c"," ","d","o","c","t","o","r"," ","p","h","y","s","i","c","i","a","n"," ","n","u","r","s","e"," ","s","p","e","c","i","a","l","i","s","t"," ","t","r","e","a","t","m","e","n","t"," ","p","a","t","i","e","n","t"," ","c","a","r","e"," ","h","e","a","l","t","h">>],
    [key |-> <<"d","o","c","t","o","r">>, terms |-> <<"d","o","c","t","o","r"," ","p","h","y","s","i","c","i","a","n"," ","m","e","d","i","c","a","l"," ","h","e","a","l","t","h","c","a","r","e"," ","h","o","s","p","i","t","a","l"," ","c","l","i","n","i","c"," ","s","p","e","c","i","a","l","i","s","t"," ","t","r","e","a","t","m","e","n","t"," ","p","a","t","i","e","n","t"," ","c","a","r","e">>],
    [key |-> <<"e","n","g","i","n","e","e","r","i","n","g">>, terms |-> <<"e","n","g","i","n","e","e","r","i","n","g"," ","t","e","c","h","n","i","c","a","l"," ","c","o","n","s","t","r","u","c","t","i","o","n"," ","i","n","f","r","a","s","t","r","u","c","t","u","r","e"," ","d","e","s","i","g","n"," ","p","r","o","j","e","c","t"," ","c","i","v","i","l"," ","m","e","c","h","a","n","i","c","a","l"," ","e","l","e","c","t","r","i","c","a","l"," ","s","o","f","t","w","a","r","e">>],
    [key |-> <<"e","n","g","i","n","e","e","r">>, terms |-> <<"e","n","g","i","n","e","e","r"," ","e","n","g","i","n","e","e","r","i","n","g"," ","t","e","c","h","n","i","c","a","l"," ","c","o","n","s","t","r","u","c","t","i","o","n"," ","i","n","f","r","a","s","t","r","u","c","t","u","r","e"," ","d","e","s","i","g","n"," ","p","r","o","j","e","c","t"," ","c","i","v","i","l"," ","m","e","c","h","a","n","i","c","a","l"," ","e","l","e","c","t","r","i","c","a","l">>],
    [key |-> <<"m","a","n","u","f","a","c","t","u","r","i","n","g">>, terms |-> <<"m","a","n","u","f","a","c","t","u","r","i","n","g"," ","i","n","d","u","s","t","r","i","a","l"," ","p","r","o","d","u","c","t","i","o","n"," ","f","a","b","r","i","c","a","t","i","o","n"," ","f","a","c","t","o","r","y"," ","a","s","s","e","m","b","l","y"," ","m","a","t","e","r","i","a","l","s"," ","s","u","p","p","l","y"," ","c","h","a","i","n">>],
    [key |-> <<"g","l","a","s","s">>, terms |-> <<"g","l","a","s","s"," ","g","l","a","z","i","n","g"," ","w","i","n","d","o","w"," ","m","i","r","r","o","r"," ","m","a","n","u","f","a","c","t","u","r","i","n","g"," ","i","n","d","u","s","t","r","i","a","l"," ","c","o","n","s","t","r","u","c","t","i","o","n"," ","m","a","t","e","r","i","a","l","s">>],
    [key |-> <<"t","e","c","h","n","o","l","o","g","y">>, terms |-> <<"t","e","c","h","n","o","l","o","g","y"," ","s","o","f","t","w","a","r","e"," ","I","T"," ","d","i","g","i","t","a","l"," ","c","o","m","p","u","t","e","r"," ","p","r","o","g","r","a","m","m","i","n","g"," ","d","e","v","e","l","o","p","m","e","n","t"," ","t","e","c","h"," ","i","n","n","o","v","a","t","i","o","n">>],
    [key |-> <<"f","i","n","a","n","c","e">>, terms |-> <<"f","i","n","a","n","c","e"," ","b","a","n","k","i","n","g"," ","i","n","v","e","s","t","m","e","n","t"," ","i","n","s","u","r","a","n","c","e"," ","a","c","c","o","u","n","t","i","n","g"," ","f","i","n","a","n","c","i","a","l"," ","s","e","r","v","i","c","e","s"," ","m","o","n","e","y"," ","c","r","e","d","i","t">>],
    [key |-> <<"e","d","u","c","a","t","i","o","n">>, terms |-> <<"e","d","u","c","a","t","i","o","n"," ","s","c","h","o","o","l"," ","u","n","i","v","e","r","s","i","t","y"," ","c","o","l","l","e","g","e"," ","t","e","a","c","h","i","n","g"," ","l","e","a","r","n","i","n","g"," ","a","c","a","d","e","m","i","c"," ","t","r","a","i","n","i","n","g">>],
    [key |-> <<"l","e","g","a","l">>, terms |-> <<"l","e","g","a","l"," ","l","a","w"," ","a","t","t","o","r","n","e","y"," ","l","a","w","y","e","r"," ","c","o","u","r","t"," ","l","i","t","i","g","a","t","i","o","n"," ","l","e","g","a","l"," ","s","e","r","v","i","c","e","s"," ","j","u","d","i","c","i","a","l">>],
    [key |-> <<"c","o","n","s","u","l","t","i","n","g">>, terms |-> <<"c","o","n","s","u","l","t","i","n","g"," ","a","d","v","i","s","o","r","y"," ","s","e","r","v","i","c","e","s"," ","b","u","s","i","n","e","s","s"," ","s","t","r","a","t","e","g","y"," ","m","a","n","a","g","e","m","e","n","t"," ","e","x","p","e","r","t">>],
    [key |-> <<"r","e","t","a","i","l">>, terms |-> <<"r","e","t","a","i","l"," ","s","t","o","r","e"," ","s","h","o","p"," ","c","o","m","m","e","r","c","e"," ","s","a","l","e","s"," ","c","u","s","t","o","m","e","r"," ","s","e","r","v","i","c","e"," ","p","r","o","d","u","c","t","s">>],
    [key |-> <<"r","e","s","t","a","u","r","a","n","t">>, terms |-> <<"r","e","s","t","a","u","r","a","n","t"," ","f","o","o","d"," ","d","i","n","i","n","g"," ","h","o","s","p","i","t","a","l","i","t","y"," ","c","a","t","e","r","i","n","g"," ","c","u","l","i","n","a","r","y"," ","c","h","e","f">>],
    [key |-> <<"h","o","t","e","l">>, terms |-> <<"h","o","t","e","l"," ","h","o","s","p","i","t","a","l","i","t","y"," ","a","c","c","o","m","m","o","d","a","t","i","o","n"," ","t","o","u","r","i","s","m"," ","t","r","a","v","e","l"," ","l","o","d","g","i","n","g">>] >>

business_context == <<"b","u","s","i","n","e","s","s"," ","c","o","m","p","a","n","y"," ","s","e","r","v","i","c","e"," ","p","r","o","v","i","d","e","r"," ","p","r","o","f","e","s","s","i","o","n","a","l"," ","i","n","d","u","s","t","r","y"," ","c","o","m","m","e","r","c","i","a","l">>

\* the expansions of the trigger terms found in query_lower, from mapping i on
RECURSIVE RelatedFrom(_, _)
RelatedFrom(query_lower, i) ==
    IF i > Len(domain_mappings) THEN <<>>
    ELSE (IF IsSubstr(domain_mappings[i].key, query_lower)
          THEN <<domain_mappings[i].terms>> ELSE <<>>)
         \o RelatedFrom(query_lower, i + 1)

\* mutant of _create_intelligent_query: the list starts with the lower-cased query
LoweredIntelligentQuery(user_query) ==
    LET query_lower == Lower(user_query)
        enhanced_terms == <<query_lower>> \o RelatedFrom(query_lower, 1) \o <<business_context>>
    IN  Join(<<" ">>, enhanced_terms)

\* mutant of _create_intelligent_query: the business context is added only
\* to a query that does not hold it yet
DedupedIntelligentQuery(user_query) ==
    LET query_lower == Lower(user_query)
        enhanced_terms == <<user_query>> \o RelatedFrom(query_lower, 1)
                          \o (IF IsSubstr(business_context, user_query)
                              THEN <<>> ELSE <<business_context>>)
    IN  Join(<<" ">>, enhanced_terms)

_create_intelligent_query(user_query) ==
    LET query_lower == Lower(user_query)
        enhanced_terms == <<user_query>> \o RelatedFrom(query_lower, 1) \o <<business_context>>
    IN  Join(<<" ">>, enhanced_terms)

category_matches == <<
    [cat |-> <<"r","e","a","l"," ","e","s","t","a","t","e">>, keywords |-> << <<"r","e","a","l">>, <<"e","s","t","a","t","e">>, <<"p","r","o","p","e","r","t","y">>, <<"r","e","a","l","t","y">>, <<"h","o","u","s","i","n","g">> >>],
    [cat |-> <<"h","e","a","l","t","h","c","a","r","e">>, keywords |-> << <<"h","o","s","p","i","t","a","l">>, <<"m","e","d","i","c","a","l">>, <<"h","e","a","l","t","h">>, <<"d","o","c","t","o","r">>, <<"c","l","i","n","i","c">> >>],
    [cat |-> <<"m","a","n","u","f","a","c","t","u","r","i","n","g">>, keywords |-> << <<"m","a","n","u","f","a","c","t","u","r","i","n","g">>, <<"i","n","d","u","s","t","r","i","a","l">>, <<"f","a","c","t","o","r","y">>, <<"g","l","a","s","s">> >>],
    [cat |-> <<"e","n","g","i","n","e","e","r","i","n","g">>, keywords |-> << <<"e","n","g","i","n","e","e","r","i","n","g">>, <<"e","n","g","i","n","e","e","r">>, <<"t","e","c","h","n","i","c","a","l">>, <<"c","o","n","s","t","r","u","c","t","i","o","n">> >>],
    [cat |-> <<"t","e","c","h","n","o","l","o","g","y">>, keywords |-> << <<"t","e","c","h">>, <<"s","o","f","t","w","a","r","e">>, <<"I","T">>, <<"d","i","g","i","t","a","l">>, <<"c","o","m","p","u","t","e","r">> >> ] >>

\* any(keyword in query_lower for keyword in keywords)
AnyKeyword(keywords, query_lower) ==
    \E j \in 1..Len(keywords) : IsSubstr(keywords[j], query_lower)

\* the loop over category_matches from entry i on: 0.8 at the first category
\* with a keyword in the query and its name in the record, then break
RECURSIVE CategoryScore(_, _, _, _)
CategoryScore(i, query_lower, category, subcategory) ==
    IF i > Len(category_matches) THEN RZero
    ELSE IF /\ AnyKeyword(category_matches[i].keywords, query_lower)
            /\ \/ IsSubstr(category_matches[i].cat, category)
               \/ IsSubstr(category_matches[i].cat, subcategory)
         THEN Rat(8, 10)
         ELSE CategoryScore(i + 1, query_lower, category, subcategory)

\* the loop over query_words: 0.3 for every word longer than 3 found in
\* services or keywords
RECURSIVE WordScore(_, _, _)
WordScore(query_words, services, keywords) ==
    IF query_words = <<>> THEN RZero
    ELSE RAdd(IF /\ Len(Head(query_words)) > 3
                 /\ \/ IsSubstr(Head(query_words), services)
                    \/ IsSubstr(Head(query_words), keywords)
              THEN Rat(3, 10) ELSE RZero,
              WordScore(Tail(query_words), services, keywords))

_calculate_business_relevance(metadata, query) ==
    LET query_lower == Lower(query)
        category    == Lower(PyStr(Get(metadata, <<"b","u","s","i","n","e","s","s","_","c","a","t","e","g","o","r","y">>, Str(<<>>))))
        subcategory == Lower(PyStr(Get(metadata, <<"b","u","s","i","n","e","s","s","_","s","u","b","c","a","t","e","g","o","r","y">>, Str(<<>>))))
        services    == Lower(PyStr(Get(metadata, <<"s","e","r","v","i","c","e","s","_","o","f","f","e","r","e","d">>, Str(<<>>))))
        keywords    == Lower(PyStr(Get(metadata, <<"i","n","d","u","s","t","r","y","_","k","e","y","w","o","r","d","s">>, Str(<<>>))))
        score == RAdd(CategoryScore(1, query_lower, category, subcategory),
                      WordScore(Split(query_lower), services, keywords))
    IN  RMin(score, ROne)

\* mutant of LongWords: short words are kept
AllWords(query_lower) == Split(query_lower)

\* [word for word in query_lower.split() if len(word) > 3]
LongWords(query_lower) == SelectSeq(Split(query_lower), LAMBDA w : Len(w) > 3)

_calculate_keyword_relevance(document, query) ==
    LET doc_lower   == Lower(document)
        query_words == LongWords(Lower(query))
        matches     == Len(SelectSeq(query_words, LAMBDA w : IsSubstr(w, doc_lower)))
    IN  IF query_words = <<>> THEN RZero ELSE Rat(matches, Len(query_words))


-----------------------------------------------------------------------------
(* VectorDBManager: ranking.  A hit is one row of the ChromaDB answer:     *)
(* [id, document, metadata, distance]                                      *)

\* relevance threshold of _process_intelligent_results
Threshold == Rat(15, 100)

\* base_relevance = max(0, 1.0 - distance)
BaseRelevance(distance) == RMax(RZero, RSub(ROne, distance))

\* final_relevance = base * 0.4 + business * 0.4 + keyword * 0.2
Combine(base, business, keyword) ==
    RAdd(RAdd(RMul(base, Rat(4, 10)), RMul(business, Rat(4, 10))),
         RMul(keyword, Rat(2, 10)))

FinalRelevance(hit, original_query) ==
    Combine(BaseRelevance(hit.distance),
            _calculate_business_relevance(hit.metadata, original_query),
            _calculate_keyword_relevance(hit.document, original_query))

\* mutant of PassesThreshold: a strict comparison
PassesAboveThreshold(final_relevance) == RLt(Threshold, final_relevance)

\* if final_relevance >= 0.15
PassesThreshold(final_relevance) == RLe(Threshold, final_relevance)

\* mutant of FormatHit: business_match from a comparison that is not strict
FormatHitAtLeast(hit, original_query) ==
    [id              |-> hit.id,
     metadata        |-> hit.metadata,
     distance        |-> hit.distance,
     relevance_score |-> FinalRelevance(hit, original_query),
     business_match  |-> RLe(Rat(3, 10), _calculate_business_relevance(hit.metadata, original_query))]

\* the result dict built for a hit that passes
FormatHit(hit, original_query) ==
    [id              |-> hit.id,
     metadata        |-> hit.metadata,
     distance        |-> hit.distance,
     relevance_score |-> FinalRelevance(hit, original_query),
     business_match  |-> RLt(Rat(3, 10), _calculate_business_relevance(hit.metadata, original_query))]

\* the metadata fields the scorer reads
ScoredKeys == << <<"b","u","s","i","n","e","s","s","_","c","a","t","e","g","o","r","y">>, <<"b","u","s","i","n","e","s","s","_","s","u","b","c","a","t","e","g","o","r","y">>,
                <<"s","e","r","v","i","c","e","s","_","o","f","f","e","r","e","d">>, <<"i","n","d","u","s","t","r","y","_","k","e","y","w","o","r","d","s">> >>

\* mutant of FormatAll: a hit whose metadata lacks a field the scorer reads
\* is dropped, as if reading it raised inside the loop's try
RECURSIVE FormatAllStrict(_, _)
FormatAllStrict(hits, original_query) ==
    IF hits = <<>> THEN <<>>
    ELSE (IF /\ \A i \in 1..Len(ScoredKeys) : HasKey(Head(hits).metadata, ScoredKeys[i])
             /\ PassesThreshold(FinalRelevance(Head(hits), original_query))
          THEN <<FormatHit(Head(hits), original_query)>> ELSE <<>>)
         \o FormatAllStrict(Tail(hits), original_query)

\* the for loop: the hits that pass, formatted, in the order of the answer
RECURSIVE FormatAll(_, _)
FormatAll(hits, original_query) ==
    IF hits = <<>> THEN <<>>
    ELSE (IF PassesThreshold(FinalRelevance(Head(hits), original_query))
          THEN <<FormatHit(Head(hits), original_query)>> ELSE <<>>)
         \o FormatAll(Tail(hits), original_query)

\* mutant of InsertDesc: x goes in front of the elements of equal score
RECURSIVE InsertDescUnstable(_, _)
InsertDescUnstable(sorted, x) ==
    IF sorted = <<>> THEN <<x>>
    ELSE IF RLt(x.relevance_score, Head(sorted).relevance_score)
         THEN <<Head(sorted)>> \o InsertDescUnstable(Tail(sorted), x)
         ELSE <<x>> \o sorted

\* list.sort(key = relevance_score, reverse = True) puts x behind every
\* element whose score is not smaller: equal scores keep their order
RECURSIVE InsertDesc(_, _)
InsertDesc(sorted, x) ==
    IF sorted = <<>> THEN <<x>>
    ELSE IF RLe(x.relevance_score, Head(sorted).relevance_score)
         THEN <<Head(sorted)>> \o InsertDesc(Tail(sorted), x)
         ELSE <<x>> \o sorted

RECURSIVE SortDescFrom(_, _)
SortDescFrom(sorted, rest) ==
    IF rest = <<>> THEN sorted
    ELSE SortDescFrom(InsertDesc(sorted, Head(rest)), Tail(rest))

SortByRelevance(formatted) == SortDescFrom(<<>>, formatted)

\* seq[:limit]
Slice(seq, limit) ==
    IF limit >= 0
    THEN SubSeq(seq, 1, IF limit < Len(seq) THEN limit ELSE Len(seq))
    ELSE SubSeq(seq, 1, IF Len(seq) + limit > 0 THEN Len(seq) + limit ELSE 0)

_process_intelligent_results(hits, original_query, limit) ==
    IF hits = <<>> THEN <<>>
    ELSE Slice(SortByRelevance(FormatAll(hits, original_query)), limit)


-----------------------------------------------------------------------------
(* Bounds and inputs *)

MaxContacts == 2   \* contacts one user holds at a time
MaxIds == 3        \* ids handed out in one run
MaxDocs == 2       \* entries of the ChromaDB collection

Users == {"u1", "u2"}

\* contact_data as the extractor returns it (a JSON object)
DataGlass == << [k |-> <<"c","o","m","p","a","n","y">>, v |-> Str(<<"G","l","a","s","s"," ","C","o">>)],
                [k |-> <<"b","u","s","i","n","e","s","s","_","c","a","t","e","g","o","r","y">>, v |-> Str(<<"M","a","n","u","f","a","c","t","u","r","i","n","g">>)],
                [k |-> <<"i","n","d","u","s","t","r","y","_","k","e","y","w","o","r","d","s">>, v |-> List(<< <<"g","l","a","s","s">>, <<"w","i","n","d","o","w">> >>)] >>
DataLoans == << [k |-> <<"n","a","m","e">>, v |-> None],
                [k |-> <<"c","o","m","p","a","n","y">>, v |-> Str(<<"A","b","c">>)],
                [k |-> <<"s","e","r","v","i","c","e","s","_","o","f","f","e","r","e","d">>, v |-> Str(<<"b","u","s","i","n","e","s","s"," ","l","o","a","n","s">>)] >>

ContactData == {DataGlass, DataLoans}

Queries == { <<"G","l","a","s","s">>, <<"b","u","s","i","n","e","s","s">>, <<"a","b","c">> }

\* default limit of query_contacts
DefaultLimit == 5

Limits == {-1, 0, 1, DefaultLimit}

-----------------------------------------------------------------------------
(* SupabaseManager: contact storage *)

\* json.dumps / json.loads of a JSON value
JsonDumps(x) == [json |-> x]
JsonLoads(j) == j.json

\* the contact_record of store_contact and _dev_store_contact; created_at is
\* the order of creation
ContactRecord(contact_id, user_id, contact_data) ==
    [id                   |-> contact_id,
     user_id              |-> user_id,
     contact_data         |-> contact_data,
     company              |-> Get(contact_data, <<"c","o","m","p","a","n","y">>, Str(<<>>)),
     name                 |-> Get(contact_data, <<"n","a","m","e">>, Str(<<>>)),
     email                |-> Get(contact_data, <<"e","m","a","i","l">>, Str(<<>>)),
     phone                |-> Get(contact_data, <<"p","h","o","n","e">>, Str(<<>>)),
     business_category    |-> Get(contact_data, <<"b","u","s","i","n","e","s","s","_","c","a","t","e","g","o","r","y">>, Str(<<>>)),
     business_subcategory |-> Get(contact_data, <<"b","u","s","i","n","e","s","s","_","s","u","b","c","a","t","e","g","o","r","y">>, Str(<<>>)),
     services_offered     |-> Get(contact_data, <<"s","e","r","v","i","c","e","s","_","o","f","f","e","r","e","d">>, Str(<<>>)),
     industry_keywords    |-> Get(contact_data, <<"i","n","d","u","s","t","r","y","_","k","e","y","w","o","r","d","s">>, List(<<>>)),
     created_at           |-> contact_id]

\* the row inserted into the table 'contacts': two columns are JSON text
TableRow(record) ==
    [record EXCEPT !.contact_data = JsonDumps(record.contact_data),
                   !.industry_keywords = JsonDumps(record.industry_keywords)]

\* the contact dict the readers build from a record
ContactOf(record) ==
    [id           |-> record.id,
     contact_data |-> record.contact_data,
     metadata     |-> [company              |-> record.company,
                       name                 |-> record.name,
                       email                |-> record.email,
                       phone                |-> record.phone,
                       business_category    |-> record.business_category,
                       business_subcategory |-> record.business_subcategory,
                       services_offered     |-> record.services_offered,
                       industry_keywords    |-> record.industry_keywords,
                       created_at           |-> record.created_at]]

\* the same from a row of the table
ContactOfRow(row) ==
    ContactOf([row EXCEPT !.contact_data = JsonLoads(row.contact_data),
                          !.industry_keywords = JsonLoads(row.industry_keywords)])

\* 'relevance_score': 0.8 of the text search
DefaultRelevance == Rat(8, 10)

\* mutant of WithRelevance: the default weighted as the ranker weights it
WithWeightedRelevance(contact) ==
    [id              |-> contact.id,
     contact_data    |-> contact.contact_data,
     metadata        |-> contact.metadata,
     relevance_score |-> RMul(DefaultRelevance, Rat(4, 10))]

WithRelevance(contact) ==
    [id              |-> contact.id,
     contact_data    |-> contact.contact_data,
     metadata        |-> contact.metadata,
     relevance_score |-> DefaultRelevance]

\* mutant of DevContactsOf: the search reads every user's list
DevContactsOfAnyone(user_id) ==
    LET others == CHOOSE u \in Users : u # user_id
    IN  dev_contacts[user_id] \o dev_contacts[others]

\* self._dev_contacts.get(user_id, [])
DevContactsOf(user_id) == dev_contacts[user_id]

\* limit of get_user_contacts
GetAllLimit == 50

_dev_get_user_contacts(user_id, limit) ==
    LET user_contacts == Slice(DevContactsOf(user_id), limit)
    IN  [i \in 1..Len(user_contacts) |-> ContactOf(user_contacts[i])]

\* the text _dev_search_contacts matches the query against
DevSearchableText(record) ==
    Lower(Join(<<" ">>, << PyStr(record.company), PyStr(record.name), PyStr(record.email),
                       PyStr(record.business_category), PyStr(record.services_offered) >>))

_dev_search_contacts(user_id, query, limit) ==
    LET user_contacts == DevContactsOf(user_id)
        query_lower   == Lower(query)
        matching      == SelectSeq(user_contacts,
                            LAMBDA record : IsSubstr(query_lower, DevSearchableText(record)))
    IN  Slice([i \in 1..Len(matching) |-> WithRelevance(ContactOf(matching[i]))], limit)

\* column ILIKE %query% : NULL matches nothing
ILike(column, query) ==
    /\ column.t = "str"
    /\ IsSubstr(Lower(query), Lower(column.v))

\* rows in the order of created_at, newest first
RECURSIVE Reverse(_)
Reverse(seq) == IF seq = <<>> THEN <<>> ELSE Append(Reverse(Tail(seq)), Head(seq))

\* mutant of RowsOf: the filter on user_id is missing
RowsOfAnyone(user_id) == Reverse(table)

\* select * from contacts where user_id = ... order by created_at desc
RowsOf(user_id) == Reverse(SelectSeq(table, LAMBDA row : row.user_id = user_id))

\* the rows the text search of search_user_contacts selects, before its limit
SearchRows(user_id, query) ==
    SelectSeq(RowsOf(user_id),
        LAMBDA row : \/ ILike(row.company, query)
                     \/ ILike(row.name, query)
                     \/ ILike(row.email, query)
                     \/ ILike(row.business_category, query)
                     \/ ILike(row.services_offered, query))

\* .limit(n): the first n rows
LimitRows(rows, n) == SubSeq(rows, 1, IF n < Len(rows) THEN n ELSE Len(rows))

\* a request the backend rejects whatever its state: a negative row limit
BadRequest(limit) == limit < 0

\* search_user_contacts: its result and whether the backend raised inside
\* it (fails: the backend is unavailable for this request)
search_user_contacts(user_id, query, limit, fails) ==
    IF mode = "dev"
    THEN [rows |-> _dev_search_contacts(user_id, query, limit), failed |-> FALSE]
    ELSE IF fails \/ BadRequest(limit)
         THEN [rows |-> <<>>, failed |-> TRUE]
         ELSE LET rows == LimitRows(SearchRows(user_id, query), limit)
              IN  [rows   |-> [i \in 1..Len(rows) |-> WithRelevance(ContactOfRow(rows[i]))],
                   failed |-> FALSE]

\* the query semantic_search_contacts searches for
SemanticQuery == <<"b","u","s","i","n","e","s","s">>

semantic_search_contacts(user_id, query_embedding, limit, fails) ==
    IF mode = "dev"
    THEN [rows |-> _dev_search_contacts(user_id, SemanticQuery, limit), failed |-> FALSE]
    ELSE search_user_contacts(user_id, SemanticQuery, limit, fails)

get_user_contacts(user_id, limit, fails) ==
    IF mode = "dev"
    THEN [rows |-> _dev_get_user_contacts(user_id, limit), failed |-> FALSE]
    ELSE IF fails \/ BadRequest(limit)
         THEN [rows |-> <<>>, failed |-> TRUE]
         ELSE LET rows == LimitRows(RowsOf(user_id), limit)
              IN  [rows   |-> [i \in 1..Len(rows) |-> ContactOfRow(rows[i])],
                   failed |-> FALSE]


-----------------------------------------------------------------------------
(* SupabaseVectorStore: the operations of the store *)

NoRet == [op |-> "none"]

StoreModes == {"dev", "supabase"}

\* how many contacts user_id holds
Held(user_id) ==
    IF mode = "dev" THEN Len(dev_contacts[user_id])
    ELSE Len(SelectSeq(table, LAMBDA row : row.user_id = user_id))

\* mutant of add_contact: a failed embedding insert fails the whole call and
\* takes the contact row back
add_contact_atomic(user_id, contact_data, has_embedding, fails_store, fails_embedding) ==
    LET contact_id == next_id + 1
        record     == ContactRecord(contact_id, user_id, contact_data)
        stored     == mode = "dev" \/ (~fails_store /\ ~fails_embedding)
    IN  /\ mode \in StoreModes
        /\ next_id' = IF stored THEN contact_id ELSE next_id
        /\ dev_contacts' = IF mode = "dev"
                           THEN [dev_contacts EXCEPT ![user_id] = Append(@, record)]
                           ELSE dev_contacts
        /\ table' = IF mode = "supabase" /\ stored
                    THEN Append(table, TableRow(record))
                    ELSE table
        /\ ret' = [op |-> "add_contact", user_id |-> user_id,
                   kind |-> IF stored THEN "ok" ELSE "error",
                   id |-> IF stored THEN contact_id ELSE 0,
                   contact_data |-> contact_data,
                   fails_embedding |-> fails_embedding,
                   embedding_stored |-> mode = "supabase" /\ stored /\ ~fails_embedding]
        /\ UNCHANGED <<mode, collection, inp, auth_users, issued, threads, files>>

\* add_contact: store_contact, then store_contact_embedding.  In Supabase
\* mode either insert may raise (fails_store, fails_embedding); a failed
\* store_contact raises ValueError, a failed embedding insert is only logged
add_contact(user_id, contact_data, has_embedding, fails_store, fails_embedding) ==
    LET contact_id == next_id + 1
        record     == ContactRecord(contact_id, user_id, contact_data)
        stored     == mode = "dev" \/ ~fails_store
    IN  /\ mode \in StoreModes
        /\ next_id' = IF stored THEN contact_id ELSE next_id
        /\ dev_contacts' = IF mode = "dev"
                           THEN [dev_contacts EXCEPT ![user_id] = Append(@, record)]
                           ELSE dev_contacts
        /\ table' = IF mode = "supabase" /\ stored
                    THEN Append(table, TableRow(record))
                    ELSE table
        /\ ret' = [op |-> "add_contact", user_id |-> user_id,
                   kind |-> IF stored THEN "ok" ELSE "error",
                   id |-> IF stored THEN contact_id ELSE 0,
                   contact_data |-> contact_data,
                   fails_embedding |-> fails_embedding,
                   embedding_stored |-> mode = "supabase" /\ stored /\ ~fails_embedding]
        /\ UNCHANGED <<mode, collection, inp, auth_users, issued, threads, files>>

\* del user_contacts[i] for the first i with contact['id'] == contact_id
RemoveFirst(user_contacts, contact_id) ==
    LET i == CHOOSE j \in 1..Len(user_contacts) :
                 /\ user_contacts[j].id = contact_id
                 /\ \A h \in 1..(j - 1) : user_contacts[h].id # contact_id
    IN  SubSeq(user_contacts, 1, i - 1) \o SubSeq(user_contacts, i + 1, Len(user_contacts))

\* what _dev_delete_contact returns
DevDeleteFinds(user_id, contact_id) ==
    \E j \in 1..Len(dev_contacts[user_id]) : dev_contacts[user_id][j].id = contact_id

\* mutant of DeleteRows: the filter on user_id is missing
DeleteRowsOfAnyone(rows, user_id, contact_id) ==
    SelectSeq(rows, LAMBDA row : row.id # contact_id)

\* delete from contacts where id = contact_id and user_id = user_id
DeleteRows(rows, user_id, contact_id) ==
    SelectSeq(rows, LAMBDA row : ~(row.id = contact_id /\ row.user_id = user_id))

\* delete_contact: in Supabase mode True unless the request raised.
\* removed: whether the call took a record out of the store
delete_contact(user_id, contact_id, fails) ==
    /\ mode \in StoreModes
    /\ IF mode = "dev"
       THEN /\ dev_contacts' =
                  IF DevDeleteFinds(user_id, contact_id)
                  THEN [dev_contacts EXCEPT ![user_id] = RemoveFirst(@, contact_id)]
                  ELSE dev_contacts
            /\ UNCHANGED table
            /\ ret' = [op |-> "delete_contact", user_id |-> user_id, contact_id |-> contact_id,
                       removed |-> DevDeleteFinds(user_id, contact_id),
                       result |-> DevDeleteFinds(user_id, contact_id)]
       ELSE /\ table' = IF fails THEN table ELSE DeleteRows(table, user_id, contact_id)
            /\ UNCHANGED dev_contacts
            /\ ret' = [op |-> "delete_contact", user_id |-> user_id, contact_id |-> contact_id,
                       removed |-> ~fails /\ DeleteRows(table, user_id, contact_id) # table,
                       result |-> ~fails]
    /\ UNCHANGED <<mode, collection, next_id, inp, auth_users, issued, threads, files>>

\* get_all_contacts: get_user_contacts with its default limit
get_all_contacts(user_id, fails) ==
    LET got == get_user_contacts(user_id, GetAllLimit, fails)
    IN  /\ mode \in StoreModes
        /\ ret' = [op |-> "get_all_contacts", user_id |-> user_id, kind |-> "ok",
                   failed |-> got.failed, results |-> got.rows]
        /\ UNCHANGED <<mode, dev_contacts, table, collection, next_id, inp, auth_users, issued, threads, files>>

\* one backend call of a search, as the result records it
Call(fn, user_id, query, limit, got) ==
    [fn |-> fn, user_id |-> user_id, query |-> query, limit |-> limit,
     failed |-> got.failed, rows |-> got.rows]

\* mutant of QueryOutcome: no text search after the semantic search
QueryOutcomeNoFallback(user_id, query, has_embedding, limit, fails_semantic, fails_text) ==
    LET semantic == semantic_search_contacts(user_id, has_embedding, limit, fails_semantic)
        text     == search_user_contacts(user_id, query, limit, fails_text)
    IN  IF has_embedding
        THEN [calls   |-> << Call("semantic", user_id, SemanticQuery, limit, semantic) >>,
              kind    |-> "ok",
              results |-> semantic.rows]
        ELSE [calls   |-> << Call("text", user_id, query, limit, text) >>,
              kind    |-> "ok",
              results |-> text.rows]

\* what SupabaseVectorStore.query_contacts returns and the calls it makes
QueryOutcome(user_id, query, has_embedding, limit, fails_semantic, fails_text) ==
    LET semantic == semantic_search_contacts(user_id, has_embedding, limit, fails_semantic)
        text     == search_user_contacts(user_id, query, limit, fails_text)
    IN  IF has_embedding /\ semantic.rows # <<>>
        THEN [calls   |-> << Call("semantic", user_id, SemanticQuery, limit, semantic) >>,
              kind    |-> "ok",
              results |-> semantic.rows]
        ELSE [calls   |-> (IF has_embedding
                           THEN << Call("semantic", user_id, SemanticQuery, limit, semantic) >>
                           ELSE <<>>)
                          \o << Call("text", user_id, query, limit, text) >>,
              kind    |-> "ok",
              results |-> text.rows]

\* mutant of query_contacts: the search cuts the stored list down to limit
\* in place instead of slicing a copy
TruncatingQueryContacts(user_id, query, has_embedding, limit, fails_semantic, fails_text) ==
    LET out == QueryOutcome(user_id, query, has_embedding, limit, fails_semantic, fails_text)
    IN  /\ mode \in StoreModes
        /\ ret' = [op |-> "query_contacts", user_id |-> user_id, query |-> query,
                   has_embedding |-> has_embedding, limit |-> limit,
                   calls |-> out.calls, kind |-> out.kind, results |-> out.results]
        /\ dev_contacts' = [dev_contacts EXCEPT ![user_id] = Slice(@, limit)]
        /\ UNCHANGED <<mode, table, collection, next_id, inp, auth_users, issued, threads, files>>

query_contacts(user_id, query, has_embedding, limit, fails_semantic, fails_text) ==
    LET out == QueryOutcome(user_id, query, has_embedding, limit, fails_semantic, fails_text)
    IN  /\ mode \in StoreModes
        /\ ret' = [op |-> "query_contacts", user_id |-> user_id, query |-> query,
                   has_embedding |-> has_embedding, limit |-> limit,
                   calls |-> out.calls, kind |-> out.kind, results |-> out.results]
        /\ UNCHANGED <<mode, dev_contacts, table, collection, next_id, inp, auth_users, issued, threads, files>>

-----------------------------------------------------------------------------
(* VectorDBManager: the ChromaDB collection *)

\* _clean_metadata_value
_clean_metadata_value(value) ==
    IF value.t = "none" \/ value = Str(<<"n","u","l","l">>) THEN <<>>
    ELSE IF value.t = "list" THEN PyStr(value)
    ELSE Strip(PyStr(value))

MetadataKeys == << <<"n","a","m","e">>, <<"c","o","m","p","a","n","y">>, <<"p","o","s","i","t","i","o","n">>, <<"e","m","a","i","l">>, <<"p","h","o","n","e">>,
                   <<"b","u","s","i","n","e","s","s","_","c","a","t","e","g","o","r","y">>, <<"b","u","s","i","n","e","s","s","_","s","u","b","c","a","t","e","g","o","r","y">>, <<"s","e","r","v","i","c","e","s","_","o","f","f","e","r","e","d">>,
                   <<"t","a","r","g","e","t","_","m","a","r","k","e","t">>, <<"b","u","s","i","n","e","s","s","_","t","y","p","e">>, <<"c","o","m","p","a","n","y","_","s","i","z","e">>,
                   <<"g","e","o","g","r","a","p","h","i","c","_","s","c","o","p","e">>, <<"i","n","d","u","s","t","r","y","_","k","e","y","w","o","r","d","s">>, <<"s","p","e","c","i","a","l","i","z","a","t","i","o","n","s">> >>

\* the metadata dict of store_contact_info (image_path and timestamp left out)
MetadataOf(contact_data) ==
    [i \in 1..Len(MetadataKeys) |->
        [k |-> MetadataKeys[i],
         v |-> Str(_clean_metadata_value(Get(contact_data, MetadataKeys[i], None)))]]

\* if value and value != "null" and str(value).strip()
Searchable(value) ==
    /\ Truthy(value)
    /\ value # Str(<<"n","u","l","l">>)
    /\ StripNonEmpty(PyStr(value))

\* f"{key}: {value}", a list joined by blanks
KeyValue(key, value) ==
    key \o <<":"," ">> \o (IF value.t = "list" THEN Join(<<" ">>, value.v) ELSE PyStr(value))

RECURSIVE SearchableParts(_)
SearchableParts(items) ==
    IF items = <<>> THEN <<>>
    ELSE (IF Searchable(Head(items).v)
          THEN << KeyValue(Head(items).k, Head(items).v) >> ELSE <<>>)
         \o SearchableParts(Tail(items))

_create_comprehensive_searchable_text(contact_data) ==
    LET business_category == Get(contact_data, <<"b","u","s","i","n","e","s","s","_","c","a","t","e","g","o","r","y">>, Str(<<"G","e","n","e","r","a","l">>))
    IN  Join(<<" ","|"," ">>, SearchableParts(contact_data)
                      \o << <<"b","u","s","i","n","e","s","s","_","c","a","t","e","g","o","r","y",":"," ">> \o PyStr(business_category) >>)

\* searchable_text handed to store_contact_info: None or the caller's text
SearchableTexts == { None, Str(<<"g","l","a","s","s"," ","m","a","k","e","r">>) }

\* store_contact_info; fails: collection.add raises, reported as ValueError
store_contact_info(contact_data, searchable_text, fails) ==
    LET doc_id == next_id + 1
        comprehensive_text ==
            IF Truthy(searchable_text) THEN searchable_text.v
            ELSE _create_comprehensive_searchable_text(contact_data)
        entry == [id |-> doc_id, document |-> comprehensive_text,
                  metadata |-> MetadataOf(contact_data), contact_data |-> contact_data]
    IN  /\ mode = "chroma"
        /\ Len(collection) < MaxDocs
        /\ next_id' = IF fails THEN next_id ELSE doc_id
        /\ collection' = IF fails THEN collection ELSE Append(collection, entry)
        /\ ret' = [op |-> "store_contact_info", kind |-> IF fails THEN "error" ELSE "ok",
                   id |-> IF fails THEN 0 ELSE doc_id]
        /\ UNCHANGED <<mode, dev_contacts, table, inp, auth_users, issued, threads, files>>

\* the entries with a distance each, nearest first (entries at the same
\* distance in the order of the collection)
RECURSIVE InsertAsc(_, _)
InsertAsc(sorted, x) ==
    IF sorted = <<>> THEN <<x>>
    ELSE IF RLe(Head(sorted).distance, x.distance)
         THEN <<Head(sorted)>> \o InsertAsc(Tail(sorted), x)
         ELSE <<x>> \o sorted

RECURSIVE NearestFrom(_, _)
NearestFrom(sorted, rest) ==
    IF rest = <<>> THEN sorted
    ELSE NearestFrom(InsertAsc(sorted, Head(rest)), Tail(rest))

\* collection.query(..., n_results = n): the n nearest entries, distances
\* as the backend measures them (dist: entry number -> distance)
ChromaQuery(n, dist) ==
    LET hits == [i \in 1..Len(collection) |->
                    [id |-> collection[i].id, document |-> collection[i].document,
                     metadata |-> collection[i].metadata, distance |-> dist[i]]]
    IN  SubSeq(NearestFrom(<<>>, hits), 1, n)

Min(a, b) == IF a < b THEN a ELSE b

\* what VectorDBManager.query_contacts returns and the backend queries it
\* makes.  fails_vector, fails_text: that query raises; a query for fewer
\* than one result raises as well
VdbOutcome(query, limit, has_embedding, fails_vector, fails_text, dist) ==
    LET total_contacts == Len(collection)
        enhanced_query == _create_intelligent_query(query)
        n_results      == Min(limit * 2, total_contacts)
        vector_raises  == fails_vector \/ n_results < 1
        text_raises    == fails_text \/ n_results < 1
        vector_call    == [fn |-> "vector", query |-> enhanced_query, n_results |-> n_results,
                           failed |-> vector_raises]
        text_call      == [fn |-> "text", query |-> enhanced_query, n_results |-> n_results,
                           failed |-> text_raises]
        hits           == ChromaQuery(n_results, dist)
        ranked         == _process_intelligent_results(hits, query, limit)
    IN  IF total_contacts = 0
        THEN [calls |-> <<>>, hits |-> <<>>, kind |-> "ok", results |-> <<>>]
        ELSE IF has_embedding /\ ~vector_raises
        THEN [calls |-> <<vector_call>>, hits |-> hits, kind |-> "ok", results |-> ranked]
        ELSE LET calls == (IF has_embedding THEN <<vector_call>> ELSE <<>>) \o <<text_call>>
             IN  IF text_raises
                 THEN [calls |-> calls, hits |-> <<>>, kind |-> "ok", results |-> <<>>]
                 ELSE [calls |-> calls, hits |-> hits, kind |-> "ok", results |-> ranked]

vdb_query_contacts(query, limit, has_embedding, fails_vector, fails_text, dist) ==
    LET out == VdbOutcome(query, limit, has_embedding, fails_vector, fails_text, dist)
    IN  /\ mode = "chroma"
        /\ ret' = [op |-> "vdb_query_contacts", query |-> query, limit |-> limit,
                   has_embedding |-> has_embedding, calls |-> out.calls, hits |-> out.hits,
                   kind |-> out.kind, results |-> out.results]
        /\ UNCHANGED <<mode, dev_contacts, table, collection, next_id, inp, auth_users, issued, threads, files>>

\* distances ChromaDB measures (squared L2: never negative): one that puts
\* the base signal on the threshold, one that leaves no base signal
Distances == { Rat(5, 8), Rat(3, 2) }

-----------------------------------------------------------------------------
(* The state machine *)

Init ==
    /\ mode \in StoreModes \cup {"chroma"}
    /\ dev_contacts = [u \in Users |-> <<>>]
    /\ table = <<>>
    /\ collection = <<>>
    /\ next_id = 0
    /\ ret = NoRet
    /\ auth_users = {}
    /\ issued = {}
    /\ threads = <<>>
    /\ files = <<>>
    /\ inp = NoRet

\* whether a backend request raises: never in development mode.  A request
\* that is not made (the vector query without an embedding, the text query
\* after a vector query that answered) has no failure to choose
Fails == IF mode = "supabase" THEN BOOLEAN ELSE {FALSE}

\* no call is in progress: the last result has been taken by its caller
Idle == ret.op = "none"

AddContact ==
    /\ Idle
    /\ next_id < MaxIds
    /\ \E u \in Users, d \in ContactData, e \in BOOLEAN, f1 \in Fails :
           /\ Held(u) < MaxContacts
           /\ \E f2 \in (IF f1 THEN {FALSE} ELSE Fails) : add_contact(u, d, e, f1, f2)

DeleteContact ==
    /\ Idle
    /\ \E u \in Users, c \in 1..MaxIds, f \in Fails : delete_contact(u, c, f)

GetAllContacts ==
    /\ Idle
    /\ \E u \in Users, f \in Fails : get_all_contacts(u, f)

QueryContacts ==
    /\ Idle
    /\ \E u \in Users, q \in Queries, e \in BOOLEAN, l \in Limits :
           \E f1 \in (IF e THEN Fails ELSE {FALSE}), f2 \in Fails :
               query_contacts(u, q, e, l, f1, f2)

StoreContactInfo ==
    /\ Idle
    /\ \E d \in ContactData, t \in SearchableTexts, f \in BOOLEAN :
           store_contact_info(d, t, f)

VdbQueryContacts ==
    /\ Idle
    /\ \E q \in Queries, l \in Limits, e \in BOOLEAN, dist \in [1..Len(collection) -> Distances] :
           \E f1 \in (IF e THEN BOOLEAN ELSE {FALSE}) :
               \E f2 \in (IF e /\ ~f1 THEN {FALSE} ELSE BOOLEAN) :
                   vdb_query_contacts(q, l, e, f1, f2, dist)

\* the caller takes the result; the next call may start
Return ==
    /\ ~Idle
    /\ ret' = NoRet
    /\ UNCHANGED <<mode, dev_contacts, table, collection, next_id, inp, auth_users, issued, threads, files>>

Next ==
    \/ AddContact
    \/ DeleteContact
    \/ GetAllContacts
    \/ QueryContacts
    \/ StoreContactInfo
    \/ VdbQueryContacts
    \/ Return

Spec == Init /\ [][Next]_vars


-----------------------------------------------------------------------------
(* Claims about the store and the search pipelines (Spec) *)

IsRead == ret.op \in {"get_all_contacts", "query_contacts"}
IsSearch == ret.op \in {"query_contacts", "vdb_query_contacts"}

\* every stored contact record, of every user
StoredRecords ==
    IF mode = "dev"
    THEN UNION { {dev_contacts[u][i] : i \in 1..Len(dev_contacts[u])} : u \in Users }
    ELSE {table[i] : i \in 1..Len(table)}

Range(seq) == {seq[i] : i \in 1..Len(seq)}

\* C1: every record get_all_contacts(A) or query_contacts(A, ...) returns
\* was stored with user_id = A: its id is the id of a stored record, and
\* every stored record of that id belongs to A.
C1_OwnerIsolation ==
    IsRead =>
        \A r \in Range(ret.results) :
            /\ \E rec \in StoredRecords : rec.id = r.id
            /\ \A rec \in StoredRecords : rec.id = r.id => rec.user_id = ret.user_id

\* a search of one user returned a contact while the other user holds a
\* contact with the same data
C1_Witness ==
    /\ ret.op = "query_contacts"
    /\ ret.results # <<>>
    /\ \E rec \in StoredRecords :
           /\ rec.user_id # ret.user_id
           /\ \E r \in Range(ret.results) : r.metadata.company = rec.company

\* the vector step of the last search raised or found nothing
VectorStepFailed ==
    /\ IsSearch
    /\ ret.has_embedding
    /\ ret.calls # <<>>
    /\ ret.calls[1].fn \in {"semantic", "vector"}
    /\ \/ ret.calls[1].failed
       \/ ret.op = "query_contacts" /\ ret.calls[1].rows = <<>>

\* C2: when an embedding was obtained and the vector query raised or found
\* nothing, the search went on to the text search (of the same owner, in the
\* store) and returned its outcome as a normal result.
C2_VectorFailureFallsBack ==
    VectorStepFailed =>
        /\ Len(ret.calls) = 2
        /\ ret.calls[2].fn = "text"
        /\ ret.kind = "ok"
        /\ ret.op = "query_contacts" =>
              /\ ret.calls[2].user_id = ret.user_id
              /\ ret.results = ret.calls[2].rows
        /\ ret.op = "vdb_query_contacts" =>
              (ret.calls[2].failed => ret.results = <<>>)

\* the semantic search raised and the text search that followed found a contact
C2_Witness ==
    /\ VectorStepFailed
    /\ ret.op = "query_contacts"
    /\ ret.calls[1].failed
    /\ ret.results # <<>>

\* every backend query of the last search raised, on a request for at
\* least one result
AllPathsFailed ==
    /\ IsSearch
    /\ ret.limit >= 1
    /\ ret.calls # <<>>
    /\ \A i \in 1..Len(ret.calls) : ret.calls[i].failed

\* C3: when the vector path and the text path both fail the search reports
\* an error, not an empty result list.
C3_BackendFailureIsAnError ==
    AllPathsFailed => ret.kind = "error"

\* C4: the text search of a search receives the user's original query,
\* never the enhanced one.
C4_TextSearchGetsOriginalQuery ==
    IsSearch =>
        \A i \in 1..Len(ret.calls) :
            ret.calls[i].fn = "text" => ret.calls[i].query = ret.query

\* C6: a search never returns more than limit results (none for a limit
\* below zero), whatever integer the caller passes as limit.
C6_AtMostLimit ==
    IsSearch => Len(ret.results) <= (IF ret.limit < 0 THEN 0 ELSE ret.limit)

\* the metadata of a store result as the dict the scorer reads
MetaDict(metadata) ==
    << [k |-> <<"b","u","s","i","n","e","s","s","_","c","a","t","e","g","o","r","y">>, v |-> metadata.business_category],
       [k |-> <<"b","u","s","i","n","e","s","s","_","s","u","b","c","a","t","e","g","o","r","y">>, v |-> metadata.business_subcategory],
       [k |-> <<"s","e","r","v","i","c","e","s","_","o","f","f","e","r","e","d">>, v |-> metadata.services_offered],
       [k |-> <<"i","n","d","u","s","t","r","y","_","k","e","y","w","o","r","d","s">>, v |-> metadata.industry_keywords] >>

\* the text of a store result the text search looks at
MetaText(metadata) ==
    Join(<<" ">>, << PyStr(metadata.company), PyStr(metadata.name), PyStr(metadata.email),
                  PyStr(metadata.business_category), PyStr(metadata.services_offered) >>)

\* the results of the last store search came from its text search
FromTextFallback ==
    /\ ret.op = "query_contacts"
    /\ ret.calls[Len(ret.calls)].fn = "text"

\* result r has business relevance 0 and keyword relevance 0 for the query
NoSignals(r) ==
    /\ _calculate_business_relevance(MetaDict(r.metadata), ret.query) = RZero
    /\ _calculate_keyword_relevance(MetaText(r.metadata), ret.query) = RZero

C17_EmptyStoreEmptyResult ==
    /\ (IsRead /\ Held(ret.user_id) = 0) =>
           (ret.results = <<>> /\ ret.kind = "ok")
    /\ (ret.op = "vdb_query_contacts" /\ collection = <<>>) =>
           (ret.results = <<>> /\ ret.kind = "ok" /\ ret.calls = <<>>)

\* a search for an owner who holds nothing while the other owner holds a
\* contact
C17_Witness ==
    /\ ret.op = "query_contacts"
    /\ Held(ret.user_id) = 0
    /\ StoredRecords # {}
    /\ ret.results = <<>>

\* C19: a step that is a search or a listing leaves the stored contacts of
\* every owner as they were (the same records, values and order), whatever
\* its arguments and its outcome, a failed backend request included.
C19_SearchIsReadOnly ==
    [][ (ret'.op \in {"query_contacts", "get_all_contacts", "vdb_query_contacts"})
            => (dev_contacts' = dev_contacts /\ table' = table /\ collection' = collection) ]_vars

\* a search whose backend request failed, in a store that holds contacts,
\* and one that returned some of an owner's contacts and not all
C19_Witness ==
    /\ ret.op = "query_contacts"
    /\ StoredRecords # {}
    /\ \/ \E i \in 1..Len(ret.calls) : ret.calls[i].failed
       \/ 0 < Len(ret.results) /\ Len(ret.results) < Held(ret.user_id)

\* C20: delete_contact returns true exactly when a contact with that id
\* owned by that user was stored and the call removed it; for an unknown
\* id, a contact deleted before or a contact of another user it returns
\* false, in development mode and in Supabase mode.
C20_DeleteReportsRemoval ==
    ret.op = "delete_contact" =>
        /\ ret.result <=> ret.removed
        /\ ret.result =>
               ~\E rec \in StoredRecords :
                    rec.id = ret.contact_id /\ rec.user_id = ret.user_id

\* the same in development mode only
C20_DevOnly ==
    (ret.op = "delete_contact" /\ mode = "dev") => (ret.result <=> ret.removed)

\* the records a step takes out of the store
RemovedByStep == StoredRecords \ StoredRecords'

\* what a delete_contact step does to the store: it takes out at most one
\* record, one with the id and the owner of the call, and leaves every
\* other record where it was
DeleteFrame ==
    /\ Cardinality(RemovedByStep) <= 1
    /\ \A rec \in RemovedByStep :
           rec.id = ret'.contact_id /\ rec.user_id = ret'.user_id
    /\ StoredRecords' \subseteq StoredRecords
    /\ table' = SelectSeq(table, LAMBDA row : row \notin RemovedByStep)
    /\ \A u \in Users :
           dev_contacts'[u] = SelectSeq(dev_contacts[u], LAMBDA rec : rec \notin RemovedByStep)
    /\ ret'.result =>
           ~\E rec \in StoredRecords' :
                rec.id = ret'.contact_id /\ rec.user_id = ret'.user_id

\* C21: delete_contact(A, id) removes at most one record, only one with
\* that id owned by A, and leaves every other record unchanged; a deleted
\* contact is never returned again: no later record gets its id, and every
\* contact a read returns is in the store.
C21_DeleteRemovesOnlyItsContact ==
    /\ [][ ret'.op = "delete_contact" => DeleteFrame ]_vars
    /\ [][ \A rec \in StoredRecords' \ StoredRecords : rec.id > next_id ]_vars
    /\ [](IsRead => \A r \in Range(ret.results) : \E rec \in StoredRecords : rec.id = r.id)

\* a delete removed one of two contacts of its owner while another owner
\* holds a contact
C21_Witness ==
    /\ ret.op = "delete_contact"
    /\ ret.removed
    /\ Held(ret.user_id) = 1
    /\ \E rec \in StoredRecords : rec.user_id # ret.user_id

\* C23: add_contact returns the new contact id with the contact stored for
\* that user, with or without an embedding and also when storing the
\* embedding fails; a failing embedding insert never fails the call, and a
\* failing contact insert is raised as an error, stores no embedding and
\* leaves the store as it was.
C23_EmbeddingFailureKeepsContact ==
    /\ [](ret.op = "add_contact" =>
            /\ ret.fails_embedding => (ret.kind = "ok" /\ ~ret.embedding_stored)
            /\ ret.kind = "ok" =>
                   /\ ret.id = next_id
                   /\ \E rec \in StoredRecords :
                          /\ rec.id = ret.id
                          /\ rec.user_id = ret.user_id
                          /\ (IF mode = "dev" THEN ContactOf(rec) ELSE ContactOfRow(rec)).contact_data
                                 = ret.contact_data
                   /\ \A rec \in StoredRecords : rec.id = ret.id => rec.user_id = ret.user_id
            /\ ret.kind = "error" => ~ret.embedding_stored)
    /\ [][ (ret'.op = "add_contact" /\ ret'.kind = "error") =>
              UNCHANGED <<dev_contacts, table, next_id>> ]_vars
    /\ [][ (ret'.op = "add_contact" /\ ret'.kind = "ok") =>
              StoredRecords \subseteq StoredRecords' ]_vars

C23_Witness ==
    /\ ret.op = "add_contact"
    /\ ret.fails_embedding
    /\ ret.kind = "ok"
    /\ \E rec \in StoredRecords : rec.id = ret.id /\ rec.user_id = ret.user_id
    /\ Held(ret.user_id) > 1

\* C25: every contact query_contacts(user, q, embedding, limit) returns
\* matches q: q occurs, whatever the case of its letters, in the contact's
\* company, name, email, business_category or services_offered, with and
\* without a query embedding, in development and in Supabase mode.
C25_ResultsMatchQuery ==
    ret.op = "query_contacts" =>
        \A r \in Range(ret.results) :
            \E field \in {r.metadata.company, r.metadata.name, r.metadata.email,
                          r.metadata.business_category, r.metadata.services_offered} :
                ILike(field, ret.query)

-----------------------------------------------------------------------------
(* The ranking step on its own: _process_intelligent_results applied to an *)
(* arbitrary ChromaDB answer (SpecRank)                                    *)

MaxHits == 2   \* rows of the answer handed to the ranking step

\* distances an answer may carry, below 0 and above 1 included
RankDistances == { Rat(-1, 1), Rat(0, 1), Rat(5, 8), Rat(7, 10), Rat(3, 2) }

\* row number i of an answer: a stored contact at some distance
RankHit(i, contact_data, distance) ==
    [id |-> i, document |-> _create_comprehensive_searchable_text(contact_data),
     metadata |-> MetadataOf(contact_data), distance |-> distance]

RankAnswers ==
    UNION { { [i \in 1..n |-> RankHit(i, c[i][1], c[i][2])] :
                c \in [1..n -> ContactData \X RankDistances] } : n \in 0..MaxHits }

RankInit ==
    /\ mode = "rank"
    /\ dev_contacts = [u \in Users |-> <<>>]
    /\ table = <<>>
    /\ collection = <<>>
    /\ next_id = 0
    /\ ret = NoRet
    /\ auth_users = {}
    /\ issued = {}
    /\ threads = <<>>
    /\ files = <<>>
    /\ inp \in [op : {"rank"}, hits : RankAnswers, query : Queries, limit : Limits]

Rank ==
    /\ Idle
    /\ inp.op = "rank"
    /\ ret' = [op |-> "rank",
               results |-> _process_intelligent_results(inp.hits, inp.query, inp.limit)]
    /\ UNCHANGED <<mode, dev_contacts, table, collection, next_id, inp, auth_users, issued, threads, files>>

RankNext == Rank

SpecRank == RankInit /\ [][RankNext]_vars

Ranked == ret.op = "rank"

\* the rows of the answer whose combined score reaches the threshold
PassingHits ==
    { i \in 1..Len(inp.hits) : RLe(Rat(15, 100), FinalRelevance(inp.hits[i], inp.query)) }

\* C5: no result of the ranking step has a combined score below 0.15, and
\* before truncation every candidate of score at least 0.15 is kept: each
\* result is such a candidate, and with a limit of zero or more the results
\* are as many as there are such candidates, or limit if that is fewer.
C5_RelevanceThreshold ==
    Ranked =>
        /\ \A r \in Range(ret.results) :
               /\ RLe(Rat(15, 100), r.relevance_score)
               /\ r.id \in PassingHits
        /\ inp.limit >= 0 => Len(ret.results) = Min(inp.limit, Cardinality(PassingHits))

\* a candidate of score exactly 0.15 was returned and another was dropped
C5_Witness ==
    /\ Ranked
    /\ \E r \in Range(ret.results) : r.relevance_score = Rat(15, 100)
    /\ Cardinality(PassingHits) < Len(inp.hits)

\* where the row with this id stands in the answer
PositionOf(id) == CHOOSE i \in 1..Len(inp.hits) : inp.hits[i].id = id

\* C7: the ranked output is in descending order of combined score, and two
\* results of equal score stand in the order of the input.
C7_RankingOrder ==
    Ranked =>
        \A i, j \in 1..Len(ret.results) :
            i < j =>
                /\ RLe(ret.results[j].relevance_score, ret.results[i].relevance_score)
                /\ ret.results[i].relevance_score = ret.results[j].relevance_score
                      => PositionOf(ret.results[i].id) < PositionOf(ret.results[j].id)

\* two results of equal score were returned
C7_Witness ==
    /\ Ranked
    /\ Len(ret.results) = 2
    /\ ret.results[1].relevance_score = ret.results[2].relevance_score

InUnitRange(x) == RLe(RZero, x) /\ RLe(x, ROne)

\* C8: whatever distance the backend supplies, the base relevance and the
\* combined score of every candidate are within [0, 1].
C8_ScoresWithinUnitRange ==
    Ranked =>
        /\ \A i \in 1..Len(inp.hits) :
               /\ InUnitRange(BaseRelevance(inp.hits[i].distance))
               /\ InUnitRange(FinalRelevance(inp.hits[i], inp.query))
        /\ \A r \in Range(ret.results) : InUnitRange(r.relevance_score)

\* the business relevance of the candidate a result was built from
BusinessRelevanceOf(r) ==
    _calculate_business_relevance(inp.hits[PositionOf(r.id)].metadata, inp.query)

\* C12: every result of the ranking step carries business_match, true
\* exactly when the candidate's business relevance is strictly above 0.3.
C12_BusinessMatchFlag ==
    Ranked =>
        \A r \in Range(ret.results) :
            r.business_match <=> RLt(Rat(3, 10), BusinessRelevanceOf(r))

\* a result whose business relevance is one word bonus, 0.3, and whose flag
\* is not set
C12_Witness ==
    /\ Ranked
    /\ \E r \in Range(ret.results) : BusinessRelevanceOf(r) = Rat(3, 10) /\ ~r.business_match

-----------------------------------------------------------------------------
(* The ranking step on answers whose metadata lacks fields (SpecMalformed) *)

\* the metadata of a stored contact: whole, with two of its fields only, or
\* without any field
MetadataVariants(contact_data) ==
    { MetadataOf(contact_data),
      SelectSeq(MetadataOf(contact_data),
                LAMBDA item : item.k \in { <<"c","o","m","p","a","n","y">>, <<"s","e","r","v","i","c","e","s","_","o","f","f","e","r","e","d">> }),
      <<>> }

MalformedDistances == { Rat(0, 1), Rat(3, 2) }

MalformedRows ==
    UNION { { [contact_data |-> d, metadata |-> m, distance |-> x] :
                m \in MetadataVariants(d), x \in MalformedDistances } : d \in ContactData }

MalformedAnswers ==
    UNION { { [i \in 1..n |->
                  [id |-> i,
                   document |-> _create_comprehensive_searchable_text(c[i].contact_data),
                   metadata |-> c[i].metadata,
                   distance |-> c[i].distance]] :
                c \in [1..n -> MalformedRows] } : n \in 0..MaxHits }

MalformedInit ==
    /\ mode = "malformed"
    /\ dev_contacts = [u \in Users |-> <<>>]
    /\ table = <<>>
    /\ collection = <<>>
    /\ next_id = 0
    /\ ret = NoRet
    /\ auth_users = {}
    /\ issued = {}
    /\ threads = <<>>
    /\ files = <<>>
    /\ inp \in [op : {"rank"}, hits : MalformedAnswers, query : Queries, limit : {DefaultLimit}]

SpecMalformed == MalformedInit /\ [][RankNext]_vars

\* the metadata with the empty string for every field the scorer reads and
\* the metadata lacks
Completed(metadata) ==
    metadata \o
    SelectSeq([i \in 1..Len(ScoredKeys) |-> [k |-> ScoredKeys[i], v |-> Str(<<>>)]],
              LAMBDA item : ~HasKey(metadata, item.k))

LacksFields(hit) == \E i \in 1..Len(ScoredKeys) : ~HasKey(hit.metadata, ScoredKeys[i])

\* the combined score of the hit with its missing fields as empty strings
CompletedScore(hit) ==
    Combine(BaseRelevance(hit.distance),
            _calculate_business_relevance(Completed(hit.metadata), inp.query),
            _calculate_keyword_relevance(hit.document, inp.query))

-----------------------------------------------------------------------------
(* The scoring functions on their own (SpecScore) *)

ScoreData == {
    << [k |-> <<"b","u","s","i","n","e","s","s","_","c","a","t","e","g","o","r","y">>, v |-> Str(<<"R","e","a","l"," ","E","s","t","a","t","e">>)],
       [k |-> <<"s","e","r","v","i","c","e","s","_","o","f","f","e","r","e","d">>, v |-> Str(<<"r","e","s","i","d","e","n","t","i","a","l"," ","s","a","l","e","s">>)] >>,
    << [k |-> <<"b","u","s","i","n","e","s","s","_","c","a","t","e","g","o","r","y">>, v |-> Str(<<"H","e","a","l","t","h","c","a","r","e">>)],
       [k |-> <<"i","n","d","u","s","t","r","y","_","k","e","y","w","o","r","d","s">>, v |-> List(<< <<"c","l","i","n","i","c">>, <<"h","o","s","p","i","t","a","l">> >>)] >>,
    << [k |-> <<"b","u","s","i","n","e","s","s","_","c","a","t","e","g","o","r","y">>, v |-> Str(<<"M","a","n","u","f","a","c","t","u","r","i","n","g">>)],
       [k |-> <<"i","n","d","u","s","t","r","y","_","k","e","y","w","o","r","d","s">>, v |-> List(<< <<"g","l","a","s","s">>, <<"w","i","n","d","o","w">> >>)] >>,
    << [k |-> <<"b","u","s","i","n","e","s","s","_","c","a","t","e","g","o","r","y">>, v |-> Str(<<"E","n","g","i","n","e","e","r","i","n","g">>)],
       [k |-> <<"b","u","s","i","n","e","s","s","_","s","u","b","c","a","t","e","g","o","r","y">>, v |-> None] >>,
    << [k |-> <<"b","u","s","i","n","e","s","s","_","c","a","t","e","g","o","r","y">>, v |-> Str(<<"T","e","c","h","n","o","l","o","g","y">>)],
       [k |-> <<"s","e","r","v","i","c","e","s","_","o","f","f","e","r","e","d">>, v |-> Str(<<"I","T"," ","s","e","r","v","i","c","e","s">>)] >>,
    << [k |-> <<"b","u","s","i","n","e","s","s","_","c","a","t","e","g","o","r","y">>, v |-> Str(<<"C","o","n","s","u","l","t","i","n","g">>)],
       [k |-> <<"b","u","s","i","n","e","s","s","_","s","u","b","c","a","t","e","g","o","r","y">>, v |-> Str(<<"R","e","a","l"," ","E","s","t","a","t","e"," ","T","e","c","h","n","o","l","o","g","y">>)],
       [k |-> <<"s","e","r","v","i","c","e","s","_","o","f","f","e","r","e","d">>, v |-> Str(<<"s","o","f","t","w","a","r","e"," ","f","o","r"," ","p","r","o","p","e","r","t","y"," ","s","a","l","e","s">>)] >>,
    << [k |-> <<"c","o","m","p","a","n","y">>, v |-> Str(<<"A","b","c">>)] >> }

\* every trigger keyword of category_matches, as the table writes it
TriggerKeywords ==
    UNION { Range(category_matches[i].keywords) : i \in 1..Len(category_matches) }

ScoreQueries ==
    TriggerKeywords \cup
    { <<>>, <<" "," ">>, <<"a","b","c">>, <<"r","e","a","l"," ","e","s","t","a","t","e">>, <<"P","r","o","p","e","r","t","y"," ","S","a","l","e","s">>, <<"g","l","a","s","s"," ","s","o","f","t","w","a","r","e">>,
      <<"s","o","f","t","w","a","r","e"," ","f","o","r"," ","p","r","o","p","e","r","t","y"," ","s","a","l","e","s">>, <<"s","e","r","v","i","c","e","s"," ","s","a","l","e","s"," ","s","e","r","v","i","c","e","s">>,
      <<"G","l","a","s","s"," ","E","n","g","i","n","e","e","r","i","n","g">> }

ScoreInit ==
    /\ mode = "score"
    /\ dev_contacts = [u \in Users |-> <<>>]
    /\ table = <<>>
    /\ collection = <<>>
    /\ next_id = 0
    /\ ret = NoRet
    /\ auth_users = {}
    /\ issued = {}
    /\ threads = <<>>
    /\ files = <<>>
    /\ inp \in [op : {"score"}, contact_data : ScoreData, query : ScoreQueries]

Score ==
    /\ Idle
    /\ inp.op = "score"
    /\ ret' = [op |-> "score",
               business_relevance |->
                   _calculate_business_relevance(MetadataOf(inp.contact_data), inp.query),
               keyword_relevance |->
                   _calculate_keyword_relevance(
                       _create_comprehensive_searchable_text(inp.contact_data), inp.query),
               enhanced_query |-> _create_intelligent_query(inp.query),
               enhanced_twice |-> _create_intelligent_query(_create_intelligent_query(inp.query))]
    /\ UNCHANGED <<mode, dev_contacts, table, collection, next_id, inp, auth_users, issued, threads, files>>

ScoreNext == Score

SpecScore == ScoreInit /\ [][ScoreNext]_vars

Scored == ret.op = "score"

\* the record's field as _calculate_business_relevance reads it
FieldLower(key) == Lower(PyStr(Get(MetadataOf(inp.contact_data), key, Str(<<>>))))

\* the record names category i of the table in its category or subcategory
RecordInCategory(i) ==
    \/ IsSubstr(category_matches[i].cat, FieldLower(<<"b","u","s","i","n","e","s","s","_","c","a","t","e","g","o","r","y">>))
    \/ IsSubstr(category_matches[i].cat, FieldLower(<<"b","u","s","i","n","e","s","s","_","s","u","b","c","a","t","e","g","o","r","y">>))

\* c: 1 when a category of the table has one of its trigger keywords in the
\* lower-cased query and its name in the record's category or subcategory
CategoryHit ==
    IF \E i \in 1..Len(category_matches) :
          /\ \E k \in Range(category_matches[i].keywords) : IsSubstr(k, Lower(inp.query))
          /\ RecordInCategory(i)
    THEN 1 ELSE 0

\* n: the query words longer than 3 found in services_offered or
\* industry_keywords
WordHits ==
    Len(SelectSeq(Split(Lower(inp.query)),
                  LAMBDA w : /\ Len(w) > 3
                             /\ \/ IsSubstr(w, FieldLower(<<"s","e","r","v","i","c","e","s","_","o","f","f","e","r","e","d">>))
                                \/ IsSubstr(w, FieldLower(<<"i","n","d","u","s","t","r","y","_","k","e","y","w","o","r","d","s">>))))

\* the formula of C10 on the scored input
BusinessRelevanceFormula ==
    ret.business_relevance = RMin(ROne, Rat(8 * CategoryHit + 3 * WordHits, 10))

\* every trigger keyword of the table triggers its category: a query that
\* is the keyword, against a record of the category, has c = 1
EveryKeywordTriggers ==
    \A i \in 1..Len(category_matches) :
        (inp.query \in Range(category_matches[i].keywords) /\ RecordInCategory(i))
            => CategoryHit = 1

C10_FormulaOnly == Scored => BusinessRelevanceFormula

\* the words of the lower-cased query and the places of the long ones
ScoredWords == Split(Lower(inp.query))
LongPlaces == { i \in 1..Len(ScoredWords) : Len(ScoredWords[i]) > 3 }

\* the document the keyword relevance was computed on, lower-cased
ScoredDocument == Lower(_create_comprehensive_searchable_text(inp.contact_data))

\* the trigger terms of the table found in the lower-cased text, in the
\* order of the table
TriggeredBy(text) ==
    SelectSeq(domain_mappings, LAMBDA m : IsSubstr(m.key, Lower(text)))

\* the expansions of these mappings, a blank after each
RECURSIVE ExpansionsOf(_)
ExpansionsOf(mappings) ==
    IF mappings = <<>> THEN <<>>
    ELSE Head(mappings).terms \o <<" ">> \o ExpansionsOf(Tail(mappings))

GenericSuffix == <<"b","u","s","i","n","e","s","s"," ","c","o","m","p","a","n","y"," ","s","e","r","v","i","c","e"," ","p","r","o","v","i","d","e","r"," ","p","r","o","f","e","s","s","i","o","n","a","l"," ","i","n","d","u","s","t","r","y"," ","c","o","m","m","e","r","c","i","a","l">>

StartsWith(text, prefix) ==
    Len(prefix) <= Len(text) /\ SubSeq(text, 1, Len(prefix)) = prefix

EndsWith(text, suffix) ==
    Len(suffix) <= Len(text) /\ SubSeq(text, Len(text) - Len(suffix) + 1, Len(text)) = suffix

\* C13: the enhanced query starts with the original query verbatim, ends
\* with the generic suffix, and holds between them the expansion of every
\* trigger term found in the lower-cased query, in the order of the table;
\* it is defined for every query, the empty and the blank one included.
C13_EnhancedQueryShape ==
    Scored =>
        /\ StartsWith(ret.enhanced_query, inp.query)
        /\ EndsWith(ret.enhanced_query, GenericSuffix)
        /\ Len(ret.enhanced_query) >= Len(inp.query) + Len(GenericSuffix) + 1
        /\ SubSeq(ret.enhanced_query, Len(inp.query) + 1,
                  Len(ret.enhanced_query) - Len(GenericSuffix))
               = <<" ">> \o ExpansionsOf(TriggeredBy(inp.query))

\* a query with capital letters and several trigger terms, which stand in
\* the table in another order than in the query
C13_Witness ==
    /\ Scored
    /\ inp.query # Lower(inp.query)
    /\ Len(TriggeredBy(inp.query)) >= 3
    /\ StartsWith(ret.enhanced_query, inp.query)

\* how often part occurs in text
Occurrences(part, text) ==
    Cardinality({ i \in 0..(Len(text) - Len(part)) : SubSeq(text, i + 1, i + Len(part)) = part })

\* C14: enhancing an enhanced query is defined, and the second call appends
\* the generic suffix exactly once after enhance(q): the result starts with
\* enhance(q), ends with the suffix, and holds the suffix once more than
\* enhance(q) does.
C14_SuffixAppendedOnce ==
    Scored =>
        /\ StartsWith(ret.enhanced_twice, ret.enhanced_query \o <<" ">>)
        /\ EndsWith(ret.enhanced_twice, <<" ">> \o GenericSuffix)
        /\ Occurrences(GenericSuffix, ret.enhanced_twice)
               = Occurrences(GenericSuffix, ret.enhanced_query) + 1

\* the second call found trigger terms in the expansions of the first and
\* added their expansions before the suffix
C14_Witness ==
    /\ Scored
    /\ Len(ret.enhanced_twice) > Len(ret.enhanced_query) + 1 + Len(GenericSuffix)
    /\ Len(TriggeredBy(ret.enhanced_query)) > Len(TriggeredBy(inp.query))

\* C11: for a query without a word longer than 3 characters (the empty
\* query included) keyword_relevance is exactly 0; otherwise it is the
\* fraction of the long query words that occur in the lower-cased document.
C11_KeywordRelevance ==
    Scored =>
        ret.keyword_relevance =
            IF LongPlaces = {} THEN RZero
            ELSE Rat(Cardinality({ i \in LongPlaces : IsSubstr(ScoredWords[i], ScoredDocument) }),
                     Cardinality(LongPlaces))

\* a query of short words only, one of which occurs in the document
C11_Witness ==
    /\ Scored
    /\ LongPlaces = {}
    /\ \E i \in 1..Len(ScoredWords) : IsSubstr(ScoredWords[i], ScoredDocument)
    /\ ret.keyword_relevance = RZero

-----------------------------------------------------------------------------
(* GPTVisionExtractor: the text handed to the embedding *)

\* the basic contact fields, in the order the text lists them
BasicFields == << <<"n","a","m","e">>, <<"c","o","m","p","a","n","y">>, <<"p","o","s","i","t","i","o","n">>, <<"e","m","a","i","l">>, <<"a","d","d","r","e","s","s">> >>

\* business_fields: field -> label, in the order of the dict
business_fields == <<
    [field |-> <<"b","u","s","i","n","e","s","s","_","c","a","t","e","g","o","r","y">>, label |-> <<"P","r","i","m","a","r","y"," ","B","u","s","i","n","e","s","s">>],
    [field |-> <<"b","u","s","i","n","e","s","s","_","s","u","b","c","a","t","e","g","o","r","y">>, label |-> <<"B","u","s","i","n","e","s","s"," ","T","y","p","e">>],
    [field |-> <<"s","e","r","v","i","c","e","s","_","o","f","f","e","r","e","d">>, label |-> <<"S","e","r","v","i","c","e","s">>],
    [field |-> <<"t","a","r","g","e","t","_","m","a","r","k","e","t">>, label |-> <<"T","a","r","g","e","t"," ","M","a","r","k","e","t">>],
    [field |-> <<"b","u","s","i","n","e","s","s","_","t","y","p","e">>, label |-> <<"B","u","s","i","n","e","s","s"," ","M","o","d","e","l">>],
    [field |-> <<"c","o","m","p","a","n","y","_","s","i","z","e">>, label |-> <<"C","o","m","p","a","n","y"," ","S","i","z","e">>],
    [field |-> <<"g","e","o","g","r","a","p","h","i","c","_","s","c","o","p","e">>, label |-> <<"G","e","o","g","r","a","p","h","i","c"," ","R","e","a","c","h">>] >>

\* if value and str(value).strip() and value != 'null'
ExtractorKeeps(value) ==
    /\ Truthy(value)
    /\ StripNonEmpty(PyStr(value))
    /\ value # Str(<<"n","u","l","l">>)

\* the loop over the basic fields, from field i on
RECURSIVE BasicElements(_, _)
BasicElements(contact_data, i) ==
    IF i > Len(BasicFields) THEN <<>>
    ELSE LET value == Get(contact_data, BasicFields[i], None)
         IN  (IF ExtractorKeeps(value)
              THEN << BasicFields[i] \o <<":"," ">> \o PyStr(value) >> ELSE <<>>)
             \o BasicElements(contact_data, i + 1)

\* the loop over business_fields, from entry i on
RECURSIVE BusinessElements(_, _)
BusinessElements(contact_data, i) ==
    IF i > Len(business_fields) THEN <<>>
    ELSE LET value == Get(contact_data, business_fields[i].field, None)
         IN  (IF ExtractorKeeps(value)
              THEN << business_fields[i].label \o <<":"," ">> \o PyStr(value) >> ELSE <<>>)
             \o BusinessElements(contact_data, i + 1)

\* a list field under its label, joined by ', '
ListElement(contact_data, field, label) ==
    LET value == Get(contact_data, field, List(<<>>))
    IN  IF Truthy(value) /\ value.t = "list"
        THEN << label \o <<":"," ">> \o Join(<<","," ">>, value.v) >> ELSE <<>>

_create_business_intelligence_text(contact_data) ==
    Join(<<" ","|"," ">>, BasicElements(contact_data, 1)
                  \o BusinessElements(contact_data, 1)
                  \o ListElement(contact_data, <<"i","n","d","u","s","t","r","y","_","k","e","y","w","o","r","d","s">>, <<"I","n","d","u","s","t","r","y"," ","K","e","y","w","o","r","d","s">>)
                  \o ListElement(contact_data, <<"s","p","e","c","i","a","l","i","z","a","t","i","o","n","s">>, <<"S","p","e","c","i","a","l","i","z","a","t","i","o","n","s">>))

-----------------------------------------------------------------------------
(* The text builders on their own, on two records at a time (SpecText) *)

\* the dicts with the items of this one, in every insertion order
InEveryOrder(items) ==
    { [i \in 1..Len(items) |-> items[p[i]]] : p \in Permutations(1..Len(items)) }

TextData ==
    InEveryOrder(<< [k |-> <<"c","o","m","p","a","n","y">>, v |-> Str(<<"A","b","c">>)],
                    [k |-> <<"p","h","o","n","e">>, v |-> Str(<<"1","2">>)] >>)
    \cup InEveryOrder(<< [k |-> <<"n","a","m","e">>, v |-> None],
                         [k |-> <<"b","u","s","i","n","e","s","s","_","c","a","t","e","g","o","r","y">>, v |-> Str(<<"T","e","c","h">>)],
                         [k |-> <<"i","n","d","u","s","t","r","y","_","k","e","y","w","o","r","d","s">>, v |-> List(<< <<"a","i">>, <<"m","l">> >>)] >>)
    \cup InEveryOrder(<< [k |-> <<"e","m","a","i","l">>, v |-> Str(<<>>)],
                         [k |-> <<"s","e","r","v","i","c","e","s","_","o","f","f","e","r","e","d">>, v |-> Str(<<"l","o","a","n","s">>)] >>)
    \cup { << [k |-> <<"c","o","m","p","a","n","y">>, v |-> Str(<<"A","b","c">>)] >> }

TextInit ==
    /\ mode = "text"
    /\ dev_contacts = [u \in Users |-> <<>>]
    /\ table = <<>>
    /\ collection = <<>>
    /\ next_id = 0
    /\ ret = NoRet
    /\ auth_users = {}
    /\ issued = {}
    /\ threads = <<>>
    /\ files = <<>>
    /\ inp \in [op : {"text"}, first : TextData, second : TextData]

BuildTexts ==
    /\ Idle
    /\ inp.op = "text"
    /\ ret' = [op |-> "text",
               comprehensive |-> << _create_comprehensive_searchable_text(inp.first),
                                    _create_comprehensive_searchable_text(inp.second) >>,
               intelligence  |-> << _create_business_intelligence_text(inp.first),
                                    _create_business_intelligence_text(inp.second) >>]
    /\ UNCHANGED <<mode, dev_contacts, table, collection, next_id, inp, auth_users, issued, threads, files>>

TextNext == BuildTexts

SpecText == TextInit /\ [][TextNext]_vars

TextsBuilt == ret.op = "text"

Keys(d) == { d[i].k : i \in 1..Len(d) }

\* the two dicts are equal: the same keys with the same values
SameFields(a, b) ==
    /\ Keys(a) = Keys(b)
    /\ \A k \in Keys(a) : Get(a, k, None) = Get(b, k, None)

\* C15: two records with the same fields, whatever the order the keys were
\* inserted in, get the same searchable text from both text builders.
C15_SameFieldsSameText ==
    (TextsBuilt /\ SameFields(inp.first, inp.second)) =>
        /\ ret.comprehensive[1] = ret.comprehensive[2]
        /\ ret.intelligence[1] = ret.intelligence[2]

\* the same, of the extractor's builder only
C15_ExtractorOnly ==
    (TextsBuilt /\ SameFields(inp.first, inp.second)) =>
        ret.intelligence[1] = ret.intelligence[2]

\* text.split(sep), from place i on, cur the segment begun
RECURSIVE SplitOnFrom(_, _, _, _)
SplitOnFrom(text, sep, i, cur) ==
    IF i > Len(text) THEN <<cur>>
    ELSE IF i + Len(sep) - 1 <= Len(text) /\ SubSeq(text, i, i + Len(sep) - 1) = sep
         THEN <<cur>> \o SplitOnFrom(text, sep, i + Len(sep), <<>>)
         ELSE SplitOnFrom(text, sep, i + 1, Append(cur, text[i]))

\* the segments of a ' | '-joined text; the empty text has none
Segments(text) == IF text = <<>> THEN <<>> ELSE SplitOnFrom(text, <<" ","|"," ">>, 1, <<>>)

\* the fields of the record that are neither null nor empty
FilledKeys(d) == { k \in Keys(d) : Truthy(Get(d, k, None)) }

\* the 'key: value' segments a field may have: a list flattened by joining
\* its elements with blanks or with commas
SegmentsFor(k, value) ==
    IF value.t = "list"
    THEN { k \o <<":"," ">> \o Join(<<" ">>, value.v), k \o <<":"," ">> \o Join(<<","," ">>, value.v) }
    ELSE { k \o <<":"," ">> \o PyStr(value) }

\* text has exactly one segment for every filled field of d and no other
OneSegmentPerFilledField(text, d) ==
    /\ Len(Segments(text)) = Cardinality(FilledKeys(d))
    /\ \A k \in FilledKeys(d) :
           Cardinality({ i \in 1..Len(Segments(text)) :
                           Segments(text)[i] \in SegmentsFor(k, Get(d, k, None)) }) = 1

\* C16: searchable_text is the ' | '-joined sequence of 'key: value'
\* segments, exactly one for every field that is neither null nor empty and
\* none for a field that is null, empty or absent, in both text builders.
C16_OneSegmentPerField ==
    TextsBuilt =>
        /\ OneSegmentPerFilledField(ret.comprehensive[1], inp.first)
        /\ OneSegmentPerFilledField(ret.intelligence[1], inp.first)

-----------------------------------------------------------------------------
(* Authentication: sign-up, sign-in and the require_auth decorator         *)
(* (SupabaseManager, AuthManager).                                         *)
(*                                                                         *)
(* A token is the sequence of its dot-separated segments.  A segment is    *)
(* either text or the base64url encoding of a JSON object, which is what   *)
(* jwt.decode can read.  The 'exp' claim is long past or far ahead.        *)

Emails == {"a@x.io", "b@x.io"}
Passwords == {"pw1", "pw2"}

TextSeg(parts) == [kind |-> "text", text |-> parts]
JsonSeg(obj) == [kind |-> "json", obj |-> obj]
Token(segs) == [t |-> "token", segs |-> segs]

Past == [t |-> "time", v |-> "past"]
Future == [t |-> "time", v |-> "future"]

\* the string ''
EmptyToken == Token(<<TextSeg(<<>>)>>)

\* the string 'authenticated'
Authenticated == Token(<<TextSeg(<<"authenticated">>)>>)

\* f"dev_token_{user_id}" : a uuid has no dot
DevToken(user_id) == Token(<<TextSeg(<<"dev_token_", user_id>>)>>)

\* header.payload.signature, the signature made by `signer`
Jwt(sub, exp, signer) ==
    Token(<<JsonSeg([alg |-> "HS256"]), JsonSeg([sub |-> sub, exp |-> exp]), TextSeg(<<signer>>)>>)

\* the access token of a session Supabase opens for user_id
SupabaseToken(user_id) == Jwt(Str(user_id), Future, "supabase")

\* what a caller can put into a request without holding any credentials,
\* and the tokens of the sessions Supabase can open
PresentedTokens ==
    {EmptyToken, Authenticated, Token(<<TextSeg(<<"a">>), TextSeg(<<"b">>), TextSeg(<<"c">>)>>)}
        \cup {DevToken(u) : u \in Users}
        \cup {Jwt(Str("u1"), e, "caller") : e \in {None, Past, Future}}
        \cup {Jwt(None, Future, "caller"), Jwt(Str(""), Future, "caller")}
        \cup {SupabaseToken(u) : u \in Users}

\* token.count('.')
DotCount(token) == Len(token.segs) - 1

\* `not token`
Falsy(token) == token = None \/ token = EmptyToken

DecodeError == [t |-> "DecodeError"]

\* jwt.decode(token, options={"verify_signature": False}) : the payload,
\* whoever signed it; DecodeError when header or payload is not JSON
JwtDecode(token) ==
    IF token.segs[1].kind = "json" /\ token.segs[2].kind = "json"
    THEN token.segs[2].obj
    ELSE DecodeError

\* AuthManager.get_user_from_token, for a request whose cookie is `cookie`
get_user_from_token(token, cookie) ==
    LET tok == IF token = Authenticated /\ ~Falsy(cookie) THEN cookie ELSE token
    IN  IF token = Authenticated /\ Falsy(cookie) THEN None
        ELSE IF Falsy(tok) \/ DotCount(tok) # 2 THEN None
        ELSE LET payload == JwtDecode(tok)
             IN  IF payload = DecodeError THEN None
                 ELSE IF payload.exp = Past THEN None
                 ELSE IF payload.sub = None \/ payload.sub.v = "" THEN None
                 ELSE [id |-> payload.sub.v, exp |-> payload.exp]

\* the requests: at most two of the four places hold a token
NoRequest == [cookie |-> None, authorization |-> None, x_access_token |-> None, arg |-> None]
AuthorizationHeaders == [scheme : {"Bearer", "Basic"}, token : PresentedTokens]
Requests ==
    {[NoRequest EXCEPT !.cookie = c, !.authorization = a] :
        c \in PresentedTokens \cup {None}, a \in AuthorizationHeaders \cup {None}}
    \cup {[NoRequest EXCEPT !.cookie = c, !.x_access_token = x] :
        c \in {None, Authenticated, EmptyToken}, x \in PresentedTokens}
    \cup {[NoRequest EXCEPT !.authorization = a, !.arg = x] :
        a \in {None, [scheme |-> "Bearer", token |-> Authenticated],
               [scheme |-> "Basic", token |-> SupabaseToken("u1")]},
        x \in PresentedTokens}
    \cup {[NoRequest EXCEPT !.x_access_token = x, !.arg = y] :
        x \in {EmptyToken, Jwt(Str("u1"), Future, "caller")},
        y \in {SupabaseToken("u2"), Authenticated}}

\* AuthManager.get_token_from_request
get_token_from_request(req) ==
    IF req.cookie # None THEN req.cookie
    ELSE IF /\ req.authorization # None
            /\ req.authorization.scheme = "Bearer"
            /\ req.authorization.token # Authenticated
         THEN req.authorization.token
    ELSE IF req.x_access_token # None THEN req.x_access_token
    ELSE IF req.arg # None THEN req.arg
    ELSE None

\* the routes behind require_auth and the store call each one's handler makes
Routes == {"get_user_contacts", "delete_user_contact"}
StoreCall(route) == IF route = "get_user_contacts" THEN "get_all_contacts" ELSE "delete_contact"

Unauthorized(route, req, token, code) ==
    [op |-> "request", route |-> route, request |-> req, token |-> token,
     status |-> 401, code |-> code, handler_ran |-> FALSE,
     current_user |-> None, store_calls |-> <<>>]

\* the places of a request where a token can be
Places(req) ==
    {req.cookie, req.x_access_token, req.arg}
        \cup (IF req.authorization = None THEN {} ELSE {req.authorization.token})

\* a token whose payload can be read, names a user and is not expired
NamesUser(token) ==
    /\ token # None
    /\ Len(token.segs) = 3
    /\ token.segs[1].kind = "json"
    /\ token.segs[2].kind = "json"
    /\ token.segs[2].obj.sub \notin {None, Str("")}
    /\ token.segs[2].obj.exp # Past

\* require_auth taking the first token of the request that names a user,
\* wherever it is, instead of the token get_token_from_request finds
require_auth_any_place(req, route) ==
    LET named == {t \in Places(req) : NamesUser(t)}
        token == IF named = {} THEN get_token_from_request(req) ELSE CHOOSE t \in named : TRUE
        user == get_user_from_token(token, req.cookie)
    IN  /\ ret' = IF Falsy(token) THEN Unauthorized(route, req, token, "auth_required")
                  ELSE IF user = None THEN Unauthorized(route, req, token, "invalid_token")
                  ELSE [op |-> "request", route |-> route, request |-> req, token |-> token,
                        status |-> 200, code |-> "ok", handler_ran |-> TRUE,
                        current_user |-> user,
                        store_calls |-> <<[op |-> StoreCall(route), user_id |-> user.id]>>]
        /\ UNCHANGED <<mode, dev_contacts, table, collection, next_id, inp, auth_users, issued, threads, files>>

\* AuthManager.require_auth : decorated_function, around the handler of `route`
require_auth(req, route) ==
    LET token == get_token_from_request(req)
        user == get_user_from_token(token, req.cookie)
    IN  /\ ret' = IF Falsy(token) THEN Unauthorized(route, req, token, "auth_required")
                  ELSE IF user = None THEN Unauthorized(route, req, token, "invalid_token")
                  ELSE [op |-> "request", route |-> route, request |-> req, token |-> token,
                        status |-> 200, code |-> "ok", handler_ran |-> TRUE,
                        current_user |-> user,
                        store_calls |-> <<[op |-> StoreCall(route), user_id |-> user.id]>>]
        /\ UNCHANGED <<mode, dev_contacts, table, collection, next_id, inp, auth_users, issued, threads, files>>

AccountOf(email) == CHOOSE a \in auth_users : a.email = email
Registered(email) == \E a \in auth_users : a.email = email

\* SupabaseManager.sign_up_user : user_id is the fresh uuid; Supabase can
\* refuse (`fails`) and opens no session while the e-mail is unconfirmed
sign_up_user(email, password, user_id, fails, confirmed) ==
    LET success == ~Registered(email) /\ ~fails
        token == IF mode = "dev" THEN DevToken(user_id)
                 ELSE IF confirmed THEN SupabaseToken(user_id) ELSE None
    IN  /\ auth_users' = IF success
                         THEN auth_users \cup {[email |-> email, id |-> user_id, password |-> password]}
                         ELSE auth_users
        /\ issued' = IF success /\ token # None
                     THEN issued \cup {[token |-> token, user_id |-> user_id]}
                     ELSE issued
        /\ ret' = [op |-> "sign_up_user", email |-> email, success |-> success,
                   user_id |-> IF success THEN Str(user_id) ELSE None,
                   access_token |-> IF success THEN token ELSE None]
        /\ UNCHANGED <<mode, dev_contacts, table, collection, next_id, inp, threads, files>>

\* SupabaseManager.sign_in_user
sign_in_user(email, password, fails) ==
    LET success == /\ Registered(email)
                   /\ AccountOf(email).password = password
                   /\ ~fails
        user_id == AccountOf(email).id
        token == IF mode = "dev" THEN DevToken(user_id) ELSE SupabaseToken(user_id)
    IN  /\ issued' = IF success THEN issued \cup {[token |-> token, user_id |-> user_id]} ELSE issued
        /\ ret' = [op |-> "sign_in_user", email |-> email, success |-> success,
                   user_id |-> IF success THEN Str(user_id) ELSE None,
                   access_token |-> IF success THEN token ELSE None]
        /\ UNCHANGED <<mode, dev_contacts, table, collection, next_id, inp, auth_users, threads, files>>

StoreInit ==
    /\ mode \in StoreModes
    /\ dev_contacts = [u \in Users |-> <<>>]
    /\ table = <<>>
    /\ collection = <<>>
    /\ next_id = 0
    /\ ret = NoRet
    /\ auth_users = {}
    /\ issued = {}
    /\ threads = <<>>
    /\ files = <<>>
    /\ inp = NoRet

SignUp ==
    /\ Idle
    /\ \E email \in Emails, password \in Passwords, fails \in Fails, confirmed \in BOOLEAN :
           \E user_id \in Users \ {a.id : a \in auth_users} :
               sign_up_user(email, password, user_id, fails, confirmed \/ mode = "dev")

SignIn ==
    /\ Idle
    /\ \E email \in Emails, password \in Passwords, fails \in Fails :
           sign_in_user(email, password, fails)

Request ==
    /\ Idle
    /\ \E req \in Requests, route \in Routes : require_auth(req, route)

AuthNext ==
    \/ SignUp
    \/ SignIn
    \/ Request
    \/ Return

SpecAuth == StoreInit /\ [][AuthNext]_vars

IsRequest == ret.op = "request"

\* C22: a route behind require_auth runs its handler exactly when a token is
\* found in the request and get_user_from_token returns a user for it, and
\* then request.current_user is that user; otherwise the response is 401,
\* the handler has not run and no store operation was made.
C22_AuthGate ==
    IsRequest =>
        LET token == get_token_from_request(ret.request)
            user == get_user_from_token(token, ret.request.cookie)
            admitted == ~Falsy(token) /\ user # None
        IN  /\ ret.handler_ran <=> admitted
            /\ ret.handler_ran =>
                   /\ ret.current_user = user
                   /\ ret.status = 200
                   /\ \E t \in Places(ret.request) : NamesUser(t)
                   /\ \A i \in 1..Len(ret.store_calls) :
                          ret.store_calls[i].user_id = user.id
            /\ ~ret.handler_ran =>
                   /\ ret.status = 401
                   /\ ret.current_user = None
                   /\ ret.store_calls = <<>>

C22_Witness ==
    /\ IsRequest
    /\ ~ret.handler_ran
    /\ ret.code = "invalid_token"
    /\ ret.request.cookie = DevToken("u1")
    /\ ret.request.authorization # None
    /\ NamesUser(ret.request.authorization.token)

\* C26: a route behind require_auth runs with request.current_user.id = U
\* only if the presented token was issued to user U by a successful sign-up
\* or sign-in; a token the caller made up is answered with 401.
C26_OnlyIssuedTokensAdmitted ==
    (IsRequest /\ ret.handler_ran) =>
        \E s \in issued : s.token = ret.token /\ s.user_id = ret.current_user.id

\* C27: the access token a successful sign_in_user returns, which login_user
\* sets as the cookie, is accepted by get_user_from_token and resolves to
\* the id of the user who signed in, in development and in Supabase mode.
C27_LoginRoundTrip ==
    (ret.op = "sign_in_user" /\ ret.success) =>
        LET user == get_user_from_token(ret.access_token, ret.access_token)
        IN  /\ user # None
            /\ Str(user.id) = ret.user_id

-----------------------------------------------------------------------------
(* VisitingCardProcessor.process_visiting_card and the token budget         *)
(* (TokenManager).  The prompt's token count, the size of the encoded image *)
(* and MAX_INPUT_TOKENS are inputs.                                         *)

\* math.ceil(a / b) for positive integers
CeilDiv(a, b) == (a + b - 1) \div b

estimate_image_tokens(image_size) ==
    LET tiles == CeilDiv(image_size[1], 512) * CeilDiv(image_size[2], 512)
    IN  85 + (tiles * 170)

\* mutant of validate_request: within_limit only below the limit
validate_request_below(text_tokens, image_size, max_tokens) ==
    LET image_tokens == estimate_image_tokens(image_size)
        total_tokens == text_tokens + image_tokens
    IN  [text_tokens |-> text_tokens, image_tokens |-> image_tokens,
         total_tokens |-> total_tokens,
         within_limit |-> total_tokens < max_tokens,
         remaining_tokens |-> max_tokens - total_tokens]

\* TokenManager.validate_request, text_tokens = count_text_tokens(prompt)
validate_request(text_tokens, image_size, max_tokens) ==
    LET image_tokens == estimate_image_tokens(image_size)
        total_tokens == text_tokens + image_tokens
    IN  [text_tokens |-> text_tokens, image_tokens |-> image_tokens,
         total_tokens |-> total_tokens,
         within_limit |-> total_tokens <= max_tokens,
         remaining_tokens |-> max_tokens - total_tokens]

PromptTokens == {0, 45}
ImageSizes == {<<512, 512>>, <<513, 512>>, <<1024, 1024>>}
TokenLimits == {255, 300, 16000}

\* the card requests: the file (format, presence, size once encoded), the
\* budget, the user (NoUser: single-user mode), extraction_result['data']
\* (None: the extraction failed) and whether an embedding was obtained
NoUser == ""
CardRequests ==
    [format_ok : BOOLEAN, file_exists : BOOLEAN, image_size : ImageSizes,
     text_tokens : PromptTokens, max_tokens : TokenLimits,
     user_id : Users \cup {NoUser},
     extracted : {None} \cup {[t |-> "dict", v |-> d] : d \in ContactData},
     has_embedding : BOOLEAN]

\* VisitingCardProcessor.process_visiting_card; fails_store: the insert of
\* add_contact raises
process_visiting_card(req, fails_store) ==
    LET token_validation == validate_request(req.text_tokens, req.image_size, req.max_tokens)
        checked   == req.format_ok /\ req.file_exists
        extracts  == checked /\ token_validation.within_limit
        stores    == extracts /\ req.extracted # None /\ req.user_id # NoUser
        stored    == stores /\ (mode = "dev" \/ ~fails_store)
        contact_id == next_id + 1
        record    == ContactRecord(contact_id, req.user_id, req.extracted.v)
    IN  /\ mode \in StoreModes
        /\ next_id < MaxIds
        /\ req.user_id # NoUser => Held(req.user_id) < MaxContacts
        /\ next_id' = IF stored THEN contact_id ELSE next_id
        /\ dev_contacts' = IF stored /\ mode = "dev"
                           THEN [dev_contacts EXCEPT ![req.user_id] = Append(@, record)]
                           ELSE dev_contacts
        /\ table' = IF stored /\ mode = "supabase"
                    THEN Append(table, TableRow(record))
                    ELSE table
        /\ ret' = [op |-> "process_visiting_card", request |-> req,
                   calls |-> (IF checked THEN <<"validate_request">> ELSE <<>>)
                             \o (IF extracts THEN <<"extract_contact_info">> ELSE <<>>)
                             \o (IF stores THEN <<"add_contact">> ELSE <<>>),
                   token_info |-> IF checked THEN [t |-> "dict", v |-> token_validation] ELSE None,
                   success |-> extracts /\ req.extracted # None /\ (stored \/ ~stores),
                   contact_id |-> IF stored THEN contact_id ELSE 0]
        /\ UNCHANGED <<mode, collection, inp, auth_users, issued, threads, files>>

ProcessCard ==
    /\ Idle
    /\ \E req \in CardRequests, fails_store \in Fails : process_visiting_card(req, fails_store)

CardNext ==
    \/ ProcessCard
    \/ Return

SpecCard == StoreInit /\ [][CardNext]_vars

IsCard == ret.op = "process_visiting_card"

\* what the budget of a request comes to, from the tiling rule
BudgetTotal(req) ==
    LET across == IF req.image_size[1] <= 512 THEN 1 ELSE 2
        down   == IF req.image_size[2] <= 512 THEN 1 ELSE 2
    IN  req.text_tokens + 85 + 170 * across * down

\* C24: validate_request reports within_limit exactly when text_tokens +
\* image_tokens <= max_tokens, with remaining_tokens = max_tokens -
\* total_tokens; process_visiting_card calls the extractor and stores a
\* contact only after a validation that reported within_limit, and over the
\* limit it returns success = false with no extraction call and no change
\* to the contact store.
C24_TokenBudgetGate ==
    /\ [](IsCard /\ ret.token_info # None =>
            LET v == ret.token_info.v
            IN  /\ v.total_tokens = v.text_tokens + v.image_tokens
                /\ v.total_tokens = BudgetTotal(ret.request)
                /\ v.within_limit <=> (v.total_tokens <= ret.request.max_tokens)
                /\ v.remaining_tokens = ret.request.max_tokens - v.total_tokens
                /\ ~v.within_limit =>
                       /\ ~ret.success
                       /\ ret.calls = <<"validate_request">>)
    /\ [](IsCard =>
            /\ \A i \in 1..Len(ret.calls) :
                   ret.calls[i] \in {"extract_contact_info", "add_contact"} =>
                       /\ ret.calls[1] = "validate_request"
                       /\ i > 1
                       /\ ret.token_info.v.within_limit
            /\ ret.contact_id # 0 => ret.success /\ ret.calls[Len(ret.calls)] = "add_contact")
    /\ [][ (ret'.op = "process_visiting_card" /\ ret'.token_info # None
              /\ ~ret'.token_info.v.within_limit) =>
                UNCHANGED <<dev_contacts, table, next_id>> ]_vars
    /\ [][ (ret'.op = "process_visiting_card" /\ <<dev_contacts, table>> # <<dev_contacts', table'>>) =>
                /\ ret'.token_info # None
                /\ ret'.token_info.v.within_limit ]_vars

\* the budget is met exactly and the contact is stored
C24_Witness ==
    /\ IsCard
    /\ ret.token_info # None
    /\ ret.token_info.v.remaining_tokens = 0
    /\ ret.success
    /\ \E rec \in StoredRecords : rec.id = ret.contact_id

-----------------------------------------------------------------------------
(* The store around the default limit of get_user_contacts: a user who     *)
(* already holds about GetAllLimit contacts (SpecFull)                      *)

MaxOver == 1   \* contacts added beyond GetAllLimit

\* the store after user u1 has added n contacts
Filled(n) == [i \in 1..n |-> ContactRecord(i, "u1", DataGlass)]

FullInit ==
    /\ mode \in StoreModes
    /\ \E n \in {GetAllLimit - 1, GetAllLimit} :
           /\ dev_contacts = [u \in Users |-> IF mode = "dev" /\ u = "u1" THEN Filled(n) ELSE <<>>]
           /\ table = IF mode = "supabase"
                      THEN [i \in 1..n |-> TableRow(Filled(n)[i])]
                      ELSE <<>>
           /\ next_id = n
    /\ collection = <<>>
    /\ ret = NoRet
    /\ auth_users = {}
    /\ issued = {}
    /\ threads = <<>>
    /\ files = <<>>
    /\ inp = NoRet

AddMore ==
    /\ Idle
    /\ next_id < GetAllLimit + MaxOver
    /\ \E u \in Users, d \in ContactData, f1 \in Fails :
           \E f2 \in (IF f1 THEN {FALSE} ELSE Fails) : add_contact(u, d, FALSE, f1, f2)

\* the oldest contact or the first one beyond the limit is deleted
DeleteOne ==
    /\ Idle
    /\ \E u \in Users, c \in {1, GetAllLimit + 1}, f \in Fails : delete_contact(u, c, f)

FullNext ==
    \/ AddMore
    \/ DeleteOne
    \/ GetAllContacts
    \/ Return

SpecFull == FullInit /\ [][FullNext]_vars

\* C28: from the return of add_contact(u, data) with id c until
\* delete_contact(u, c) succeeds, get_all_contacts(u) includes a record with
\* id c and contact_data equal to data, however many contacts u holds and
\* in whatever order they were added (here: whenever the read did not fail).
C28_StoredContactIsListed ==
    (ret.op = "get_all_contacts" /\ ~ret.failed) =>
        \A rec \in StoredRecords :
            rec.user_id = ret.user_id =>
                \E r \in Range(ret.results) :
                    /\ r.id = rec.id
                    /\ r.contact_data = (IF mode = "dev" THEN rec.contact_data
                                         ELSE JsonLoads(rec.contact_data))

-----------------------------------------------------------------------------
(* Concurrent requests (SpecDelete): delete_contact calls of one user in    *)
(* development mode, each request served by its own thread.  A thread can   *)
(* be suspended between two bytecodes: here between the step of the         *)
(* enumerate() iterator that hands out (i, contact) and the loop body.      *)
(* A thread keeps the id of the contact it holds (`contact`, 0: none) and   *)
(* the id of the record it deleted (`removed`, 0: none).                    *)

\* the threads serving requests at the same time
Threads == {"t1", "t2"}

NoThread == [pc |-> "idle"]

\* del user_contacts[i] : IndexError when the list has no index i
DelAt(user_contacts, i) ==
    SubSeq(user_contacts, 1, i) \o SubSeq(user_contacts, i + 2, Len(user_contacts))

DeleteInit ==
    /\ mode = "dev"
    /\ dev_contacts = [u \in Users |-> IF u = "u1" THEN Filled(MaxContacts + 1) ELSE <<>>]
    /\ table = <<>>
    /\ collection = <<>>
    /\ next_id = MaxContacts + 1
    /\ ret = NoRet
    /\ auth_users = {}
    /\ issued = {}
    /\ threads = [t \in Threads |-> NoThread]
    /\ files = <<>>
    /\ inp = NoRet

\* _dev_delete_contact is entered: enumerate(user_contacts) starts at 0
DeleteStart(t) ==
    /\ threads[t].pc = "idle"
    /\ \E c \in 1..(MaxContacts + 1) :
           threads' = [threads EXCEPT ![t] =
               [pc |-> "for", user_id |-> "u1", contact_id |-> c, next |-> 0,
                i |-> 0, contact |-> 0, removed |-> 0, result |-> "none"]]
    /\ UNCHANGED <<mode, dev_contacts, table, collection, next_id, ret, inp, auth_users, issued, files>>

\* for i, contact in enumerate(user_contacts) : the next pair, or the end
\* of the loop and `return False`
DeleteFor(t) ==
    LET th == threads[t]
        user_contacts == dev_contacts[th.user_id]
    IN  /\ th.pc = "for"
        /\ threads' = [threads EXCEPT ![t] =
               IF th.next < Len(user_contacts)
               THEN [th EXCEPT !.pc = "body", !.i = th.next,
                               !.contact = user_contacts[th.next + 1].id,
                               !.next = th.next + 1]
               ELSE [th EXCEPT !.pc = "done", !.result = "False"]]
        /\ UNCHANGED <<mode, dev_contacts, table, collection, next_id, ret, inp, auth_users, issued, files>>

\* if contact['id'] == contact_id: del user_contacts[i]; return True
DeleteBody(t) ==
    LET th == threads[t]
        user_contacts == dev_contacts[th.user_id]
    IN  /\ th.pc = "body"
        /\ IF th.contact # th.contact_id
           THEN /\ threads' = [threads EXCEPT ![t].pc = "for"]
                /\ UNCHANGED dev_contacts
           ELSE IF th.i < Len(user_contacts)
           THEN /\ dev_contacts' = [dev_contacts EXCEPT ![th.user_id] = DelAt(@, th.i)]
                /\ threads' = [threads EXCEPT ![t] =
                       [th EXCEPT !.pc = "done", !.result = "True",
                                  !.removed = user_contacts[th.i + 1].id]]
           ELSE /\ threads' = [threads EXCEPT ![t] =
                       [th EXCEPT !.pc = "done", !.result = "IndexError"]]
                /\ UNCHANGED dev_contacts
        /\ UNCHANGED <<mode, table, collection, next_id, ret, inp, auth_users, issued, files>>

\* the response is sent; the thread serves the next request
DeleteReturn(t) ==
    /\ threads[t].pc = "done"
    /\ threads' = [threads EXCEPT ![t] = NoThread]
    /\ UNCHANGED <<mode, dev_contacts, table, collection, next_id, ret, inp, auth_users, issued, files>>

DeleteNext ==
    \E t \in Threads :
        \/ DeleteStart(t)
        \/ DeleteFor(t)
        \/ DeleteBody(t)
        \/ DeleteReturn(t)

SpecDelete == DeleteInit /\ [][DeleteNext]_vars

\* C29: when delete_contact calls of one user run concurrently against the
\* development-mode store, each call removes only the contact whose id it
\* was given, or nothing, and returns true only if it removed that contact.
C29_ConcurrentDeletesRemoveOnlyTheirContact ==
    \A t \in Threads :
        threads[t].pc = "done" =>
            /\ threads[t].removed \in {0, threads[t].contact_id}
            /\ threads[t].result = "True" => threads[t].removed = threads[t].contact_id
            /\ threads[t].result \in {"True", "False"}

-----------------------------------------------------------------------------
(* Concurrent uploads (SpecUpload): the process-visiting-card route of      *)
(* app.py (mode "app") and of app_bu.py (mode "app_bu").  A file of         *)
(* UPLOAD_FOLDER holds the image of the request that saved it last, named   *)
(* by its thread; "none": no such file.                                     *)

Filenames == {"card.png", "scan.jpg"}

\* temp_path : app.py puts the user's id before the file name
TempPath(user_id, filename) ==
    IF mode = "app" THEN <<user_id, filename>> ELSE <<"", filename>>

TempPaths == (Users \cup {""}) \X Filenames

UploadInit ==
    /\ mode \in {"app", "app_bu"}
    /\ dev_contacts = [u \in Users |-> <<>>]
    /\ table = <<>>
    /\ collection = <<>>
    /\ next_id = 0
    /\ ret = NoRet
    /\ auth_users = {}
    /\ issued = {}
    /\ threads = [t \in Threads |-> NoThread]
    /\ files = [p \in TempPaths |-> "none"]
    /\ inp = NoRet

\* the request arrives: temp_path is computed
UploadStart(t) ==
    /\ threads[t].pc = "idle"
    /\ \E user_id \in Users, filename \in Filenames :
           threads' = [threads EXCEPT ![t] =
               [pc |-> "save", temp_path |-> TempPath(user_id, filename),
                read |-> "none", status |-> 0]]
    /\ UNCHANGED <<mode, dev_contacts, table, collection, next_id, ret, inp, auth_users, issued, files>>

\* file.save(temp_path)
UploadSave(t) ==
    /\ threads[t].pc = "save"
    /\ files' = [files EXCEPT ![threads[t].temp_path] = t]
    /\ threads' = [threads EXCEPT ![t].pc = "process"]
    /\ UNCHANGED <<mode, dev_contacts, table, collection, next_id, ret, inp, auth_users, issued>>

\* processor.process_visiting_card(temp_path) reads the file that is there
UploadProcess(t) ==
    /\ threads[t].pc = "process"
    /\ threads' = [threads EXCEPT ![t].pc = "exists", ![t].read = files[threads[t].temp_path]]
    /\ UNCHANGED <<mode, dev_contacts, table, collection, next_id, ret, inp, auth_users, issued, files>>

\* if os.path.exists(temp_path):
UploadExists(t) ==
    /\ threads[t].pc = "exists"
    /\ threads' = [threads EXCEPT ![t] =
           IF files[threads[t].temp_path] # "none"
           THEN [@ EXCEPT !.pc = "remove"]
           ELSE [@ EXCEPT !.pc = "done", !.status = 200]]
    /\ UNCHANGED <<mode, dev_contacts, table, collection, next_id, ret, inp, auth_users, issued, files>>

\* os.remove(temp_path) : FileNotFoundError, answered with 500, when the
\* file is gone
UploadRemove(t) ==
    /\ threads[t].pc = "remove"
    /\ files' = [files EXCEPT ![threads[t].temp_path] = "none"]
    /\ threads' = [threads EXCEPT ![t].pc = "done",
                                  ![t].status = IF files[threads[t].temp_path] # "none"
                                                THEN 200 ELSE 500]
    /\ UNCHANGED <<mode, dev_contacts, table, collection, next_id, ret, inp, auth_users, issued>>

\* return jsonify(result)
UploadReturn(t) ==
    /\ threads[t].pc = "done"
    /\ threads' = [threads EXCEPT ![t] = NoThread]
    /\ UNCHANGED <<mode, dev_contacts, table, collection, next_id, ret, inp, auth_users, issued, files>>

UploadNext ==
    \E t \in Threads :
        \/ UploadStart(t)
        \/ UploadSave(t)
        \/ UploadProcess(t)
        \/ UploadExists(t)
        \/ UploadRemove(t)
        \/ UploadReturn(t)

SpecUpload == UploadInit /\ [][UploadNext]_vars

\* C30: concurrent process-visiting-card requests do not interfere through
\* the temporary file: the image a request saved is still there, and still
\* its own, when its processing reads it, and once every request has
\* finished no temporary file remains.
C30_UploadsDoNotInterfere ==
    /\ \A t \in Threads :
           threads[t].pc = "process" => files[threads[t].temp_path] = t
    /\ \A t \in Threads :
           threads[t].pc \in {"exists", "remove", "done"} => threads[t].read = t
    /\ (\A t \in Threads : threads[t].pc = "idle") =>
           \A p \in TempPaths : files[p] = "none"

\* the part of C30 that holds: with no request in progress no temporary
\* file is left
C30_NoFileRemains ==
    (\A t \in Threads : threads[t].pc = "idle") => \A p \in TempPaths : files[p] = "none"

====
